---- MODULE Spec2Model ----
(***************************************************************************)
(* NetRailPipeline: a model of the train-count pipeline, the CIF hop       *)
(* scanner, the business-period calendar and the delay-archive cache.      *)
(*                                                                         *)
(* Each component has its own variables and its own specification; a       *)
(* specification keeps the variables of the other components at their     *)
(* idle values.                                                            *)
(***************************************************************************)
EXTENDS Integers, Sequences, FiniteSets, TLC

VARIABLES
    \* features/streaming_train_counts.py: _build_hourly_counts
    tt_df,        \* the timetable slice handed to _build_hourly_counts
    collapsed,    \* the frame after the groupby/agg
    exploded,     \* the frame after _explode_days: (row of collapsed, run_date)
    cal,          \* the exploded frame with dep_h / arr_h per row
    counts,       \* the hourly counts, a function (ELR_MIL, hour) -> count
    hc_pc,        \* "idle" | "count" | "explode" | "build" | "done" | "error"
    \* rail_io/cif_hop_extract.py: the locals of the iter_hops generator
    train_id,       \* cols 4-9 of the last BS record
    days_run,       \* cols 22-28 of the last BS record
    last_dep_time,  \* departure time of the last record that had one
    last_stanox,    \* STANOX of that record
    emitted,        \* the Hops yielded for the record just read: <<>> or <<hop>>
    cif_pc,         \* "idle" | "scan" | "error" (the generator raised)
    \* bookkeeping on the records read, kept to state the claims
    cur_rec,        \* the record just read
    prev_loc,       \* the location record read before it in this schedule
    sched_shape,    \* how far the schedule is BS, LO, LI*, LT with valid fields
    sched_locs,     \* location records read in this schedule
    sched_hops,     \* Hops yielded in this schedule
    \* rail_io/extract_delay.py, features/extract_incidents.py: one call of a
    \* business-period map builder
    bp_start,     \* start_date, a datetime in ticks
    bp_end,       \* end_date
    bp_periods,   \* the (fiscal-year code, period number) pairs returned
    bp_pc,        \* "idle" | "call" | "map" | "list" | the exception raised
    \* rail_io/extract_delay.py, rail_io/delay_processor.py: one call on the
    \* delay archives of one season
    dl_src,         \* what src_dir holds
    dl_inner,       \* period -> the kind of its archive inside the season ZIP
    dl_cache0,      \* periods with a cached file before the call
    dl_cache,       \* periods with a cached file
    dl_given,       \* business_period is not None
    dl_request,     \* the periods of business_period
    dl_overwrite,   \* overwrite
    dl_import_all,  \* import_all
    dl_writes,      \* periods whose cached file the call wrote
    dl_logged,      \* periods the call logged as skipped
    dl_total,       \* the count process_zipfile returned
    dl_op,          \* "none" | "get" | "extract" | "process"
    dl_pc,          \* "idle" | "call" | "returned" | the exception raised
    \* io/utils.py, rail_io/utils.py: calls of get_cache, write_cache and
    \* read_cache on one cache directory
    gc_dir,        \* cache_path.parent is a directory
    gc_fs,         \* path -> the file at that path of the directory
    gc_module,     \* "io" | "rail_io": the module whose functions are called
    gc_path,       \* cache_path, by its extensions
    gc_input,      \* input_path: "none" | "missing" | "exists"
    gc_gen,        \* gen_func is supplied
    gc_df,         \* the table handed to write_cache / returned by gen_func
    gc_result,     \* the table the call returned
    gc_gen_calls,  \* calls of gen_func
    gc_hint,       \* the sibling files the error message names
    gc_op,         \* "none" | "get" | "write" | "read"
    gc_pc,         \* "idle" | "call" | "written" | "returned" | the exception
    \* features/generate_database.py: runs of stream_main_database on one
    \* output directory
    tb_rows,       \* <<ELR_MIL, hour>> -> rows of the dataset with that key
    tb_spans,      \* the hours of the spans requested so far
    tb_windows,    \* windows written by the last run
    tb_runs,       \* runs completed
    \* features/sql_weather.py: runs of build_weather_features on one
    \* feature directory
    wx_feat,       \* the feature directory: a set of [day, file]
    wx_hrs,        \* window_hours of the configured rolling feature
    wx_range,      \* <<start_date, end_date>> of the runs
    wx_out,        \* <<hour, value>> feature rows written by the last run
    wx_first,      \* the same for the first run
    wx_temp_log,   \* per window of the last run: what its temporary area held
    wx_guids,      \* file-name prefixes used so far
    wx_runs,       \* runs made
    wx_trace,      \* the last run in order: hours present, built, aggregated
    wx_pc,         \* "idle" | "ready" | "returned" | the exception raised
    \* ---- incident dataset (features/extract_incidents.py)
    inc_files,     \* delay files of the directory: period -> [status, rows]
    inc_window,    \* NoRec or [start, end] (start_date, end_date)
    inc_expected,  \* [given, codes] (expected_codes)
    inc_scan,      \* scan_codes
    inc_out,       \* per file: the frame written to the incident dataset
    inc_pc,        \* "idle" | "ready" | "returned" | the exception raised
    \* ---- modelling frame (models/construct_frame.py)
    mf_tables,     \* per feature area: the rows (year, month, day, hour) on disk
    mf_filter,     \* time_filter: component -> [list, vals]
    mf_brace,      \* whether the engine's glob reads {a,b} as alternatives
    mf_out,        \* rows of the returned frame
    mf_pc,         \* "idle" | "ready" | "returned" | the exception raised
    \* ---- per-label models (models/modelling.py)
    tm_labels,     \* Y.columns in order: per label [zero, fit]
    tm_return_xy,  \* return_xy
    tm_results,    \* keys of the results dict (column positions)
    tm_pc,         \* "idle" | "ready" | "returned" | "returned_xy" | exception
    \* ---- Session.save (io/session.py)
    sv_dest,       \* dest of the calls, a path as its name parts
    sv_fs,         \* the files of dest's directory: path -> [exists, bytes]
    sv_data,       \* what download_binary returned to the call in progress
    sv_prev,       \* the file at dest when the last call began
    sv_log,        \* how each finished call ended
    sv_posix,      \* whether rename replaces an existing target
    sv_pc,         \* "idle" | "ready" | "downloaded" | "writing" | "written"
    \* ---- Session construction (io/session.py, rail_io/nationalrail_client.py)
    cr_class,      \* "Session" | "NationalRailSession"
    cr_args,       \* [user, password, token] given to the constructor
    cr_env,        \* NATR_USER, NATR_PASS, NATR_TOKEN of the environment
    cr_auth,       \* "none" | "token" | "basic": what the session sends
    cr_pc,         \* "idle" | "ready" | "constructed" | the exception raised
    \* ---- load_settings (features/config.py, models/config.py)
    ls_fs,         \* settings documents on disk: path -> status of its content
    ls_path,       \* the path argument, or NoRec for None
    ls_read,       \* the path whose document was read, or NoRec
    ls_pc,         \* "idle" | "ready" | "returned" | the exception raised
    \* ---- write_to_parquet partition limit (features/utils.py)
    wp_keys,       \* partition-key cardinality of the frame to write
    wp_lib,        \* "dataset" | "legacy": whether write_to_dataset knows max_partitions
    wp_written,    \* partitions written under out_root
    wp_path,       \* "none" | "first" | "fallback": the call that ended the write
    wp_pc,         \* "idle" | "ready" | "returned" | the exception raised
    \* ---- _open_zip (rail_io/track_client.py)
    oz_zip,        \* the archive: [exists, members, fault]
    oz_temp,       \* the temporary directory: "none" | "present" | "removed"
    oz_files,      \* members extracted into it
    oz_pc,         \* "idle" | "ready" | "body" | "exited" | the exception raised
    \* ---- CORPUS cache (rail_io/corpus_client.py)
    co_dir,        \* whether the cache file's directory exists
    co_cache,      \* the cache file: "absent" or the table it holds
    co_input,      \* the CORPUS source: [exists, fmt]
    co_log,        \* per finished call: [call, before, out, pc, extracted]
    co_pc,         \* "idle" | "ready"
    \* ---- streaming windows
    sw_fn,         \* the streaming function that runs
    sw_rule,       \* window_rule: [kind, n]
    sw_range,      \* <<start_date, end_date>> as passed
    sw_tt,         \* train counts: validity ranges of the timetable rows
    sw_lo,         \* first win_start
    sw_hi,         \* the bound of the while loop
    sw_win_start,  \* win_start
    sw_log,        \* windows processed so far: [start, end, written]
    sw_pc,         \* "idle" | "ready" | "loop" | "done"
    \* ---- streamed train counts
    tc_tt,         \* the timetable frame get_timetable returned
    tc_rule,       \* window_rule: [kind, n]
    tc_range,      \* <<start_date, end_date>> in days
    tc_hi,         \* horizon_end
    tc_lo,         \* horizon_start
    tc_win_start,  \* win_start
    tc_files,      \* per window written: [start, end, counts]
    tc_pc,         \* "idle" | "ready" | "loop" | "done" | "ValueError"
    \* ---- delay cache paths
    dp_tree,       \* the files under the delay cache directory
    dp_fmt,        \* settings.delay.cache_format
    dp_window,     \* the requested window, or NoRec
    dp_cached,     \* the periods the delay processor cached
    dp_found,      \* what _delay_files returned
    dp_pc,         \* "idle" | "ready" | "scanned"
    \* ---- timetable cache
    tg_input,      \* the timetable periods with a ZIP archive in the input directory
    tg_cache,      \* the timetable cache: NoRec, or [periods] whose hops it holds
    tg_log,        \* per finished get_timetable call: [start, end, pc, out]
    tg_pc          \* "idle" | "ready"

hc_vars == <<tt_df, collapsed, exploded, cal, counts, hc_pc>>
cif_vars == <<train_id, days_run, last_dep_time, last_stanox, emitted, cif_pc,
              cur_rec, prev_loc, sched_shape, sched_locs, sched_hops>>

bp_vars == <<bp_start, bp_end, bp_periods, bp_pc>>

dl_vars == <<dl_src, dl_inner, dl_cache0, dl_cache, dl_given, dl_request,
             dl_overwrite, dl_import_all, dl_writes, dl_logged, dl_total,
             dl_op, dl_pc>>

gc_vars == <<gc_dir, gc_fs, gc_module, gc_path, gc_input, gc_gen, gc_df,
             gc_result, gc_gen_calls, gc_hint, gc_op, gc_pc>>

tb_vars == <<tb_rows, tb_spans, tb_windows, tb_runs>>

wx_vars == <<wx_feat, wx_hrs, wx_range, wx_out, wx_first, wx_temp_log,
             wx_guids, wx_runs, wx_trace, wx_pc>>

inc_vars == <<inc_files, inc_window, inc_expected, inc_scan, inc_out, inc_pc>>

mf_vars == <<mf_tables, mf_filter, mf_brace, mf_out, mf_pc>>

tm_vars == <<tm_labels, tm_return_xy, tm_results, tm_pc>>

sv_vars == <<sv_dest, sv_fs, sv_data, sv_prev, sv_log, sv_posix, sv_pc>>

cr_vars == <<cr_class, cr_args, cr_env, cr_auth, cr_pc>>

ls_vars == <<ls_fs, ls_path, ls_read, ls_pc>>

wp_vars == <<wp_keys, wp_lib, wp_written, wp_path, wp_pc>>

oz_vars == <<oz_zip, oz_temp, oz_files, oz_pc>>

co_vars == <<co_dir, co_cache, co_input, co_log, co_pc>>

sw_vars == <<sw_fn, sw_rule, sw_range, sw_tt, sw_lo, sw_hi, sw_win_start, sw_log, sw_pc>>

tc_vars == <<tc_tt, tc_rule, tc_range, tc_hi, tc_lo, tc_win_start, tc_files, tc_pc>>

dp_vars == <<dp_tree, dp_fmt, dp_window, dp_cached, dp_found, dp_pc>>

tg_vars == <<tg_input, tg_cache, tg_log, tg_pc>>

vars == <<hc_vars, cif_vars, bp_vars, dl_vars, gc_vars, tb_vars, wx_vars, inc_vars, mf_vars, tm_vars, sv_vars, cr_vars, ls_vars, wp_vars, oz_vars, co_vars, sw_vars, tc_vars, dp_vars, tg_vars>>

(***************************************************************************)
(* Generic helpers                                                         *)
(***************************************************************************)
NoValue == "None"
\* None where a time of day is expected
NoTime == -1
\* no record read yet
NoRec == [rec |-> "none"]

SetMin(S) == CHOOSE x \in S : \A y \in S : x <= y
SetMax(S) == CHOOSE x \in S : \A y \in S : x >= y

\* sequences over S of length lo..hi
SeqsOf(S, lo, hi) == UNION {[1..n -> S] : n \in lo..hi}

(***************************************************************************)
(* Idle values of each component                                           *)
(***************************************************************************)
HcIdle ==
    /\ tt_df = <<>> /\ collapsed = <<>> /\ exploded = <<>> /\ cal = <<>>
    /\ counts = <<>> /\ hc_pc = "idle"

CifIdle ==
    /\ train_id = NoValue /\ days_run = NoValue
    /\ last_dep_time = NoTime /\ last_stanox = NoValue
    /\ emitted = <<>> /\ cif_pc = "idle"
    /\ cur_rec = NoRec /\ prev_loc = NoRec
    /\ sched_shape = "none" /\ sched_locs = 0 /\ sched_hops = 0

BpIdle == bp_start = 0 /\ bp_end = 0 /\ bp_periods = {} /\ bp_pc = "idle"

DlIdle ==
    /\ dl_src = "nodir" /\ dl_inner = <<>>
    /\ dl_cache0 = {} /\ dl_cache = {}
    /\ dl_given = FALSE /\ dl_request = {}
    /\ dl_overwrite = FALSE /\ dl_import_all = FALSE
    /\ dl_writes = {} /\ dl_logged = {} /\ dl_total = 0
    /\ dl_op = "none" /\ dl_pc = "idle"

GcIdle ==
    /\ gc_dir = FALSE /\ gc_fs = <<>> /\ gc_module = "io" /\ gc_path = <<>>
    /\ gc_input = "none" /\ gc_gen = FALSE /\ gc_df = <<>> /\ gc_result = <<>>
    /\ gc_gen_calls = 0 /\ gc_hint = {} /\ gc_op = "none" /\ gc_pc = "idle"

TbIdle == tb_rows = <<>> /\ tb_spans = {} /\ tb_windows = 0 /\ tb_runs = 0

WxIdle ==
    /\ wx_feat = {} /\ wx_hrs = 0 /\ wx_range = <<0, 0>> /\ wx_out = {}
    /\ wx_first = {} /\ wx_temp_log = <<>> /\ wx_guids = {} /\ wx_runs = 0
    /\ wx_trace = <<>> /\ wx_pc = "idle"

IncIdle ==
    /\ inc_files = <<>> /\ inc_window = NoRec
    /\ inc_expected = [given |-> FALSE, codes |-> {}] /\ inc_scan = TRUE
    /\ inc_out = <<>> /\ inc_pc = "idle"

MfIdle ==
    /\ mf_tables = <<>> /\ mf_filter = <<>> /\ mf_brace = FALSE
    /\ mf_out = {} /\ mf_pc = "idle"

TmIdle ==
    /\ tm_labels = <<>> /\ tm_return_xy = FALSE /\ tm_results = {}
    /\ tm_pc = "idle"

SvIdle ==
    /\ sv_dest = <<>> /\ sv_fs = <<>> /\ sv_data = <<>> /\ sv_prev = NoRec
    /\ sv_log = <<>> /\ sv_posix = TRUE /\ sv_pc = "idle"

CrIdle ==
    /\ cr_class = "Session" /\ cr_args = NoRec /\ cr_env = NoRec
    /\ cr_auth = "none" /\ cr_pc = "idle"

LsIdle ==
    /\ ls_fs = <<>> /\ ls_path = NoRec /\ ls_read = NoRec /\ ls_pc = "idle"

WpIdle ==
    /\ wp_keys = 0 /\ wp_lib = "dataset" /\ wp_written = 0 /\ wp_path = "none"
    /\ wp_pc = "idle"

OzIdle ==
    /\ oz_zip = NoRec /\ oz_temp = "none" /\ oz_files = {} /\ oz_pc = "idle"

CoIdle ==
    /\ co_dir = TRUE /\ co_cache = "absent" /\ co_input = NoRec /\ co_log = <<>>
    /\ co_pc = "idle"

SwIdle ==
    /\ sw_fn = "none" /\ sw_rule = NoRec /\ sw_range = <<0, 0>> /\ sw_tt = {}
    /\ sw_lo = 0 /\ sw_hi = 0 /\ sw_win_start = 0 /\ sw_log = <<>> /\ sw_pc = "idle"

TcIdle ==
    /\ tc_tt = <<>> /\ tc_rule = NoRec /\ tc_range = <<0, 0>> /\ tc_hi = 0 /\ tc_lo = 0
    /\ tc_win_start = 0 /\ tc_files = <<>> /\ tc_pc = "idle"

DpIdle ==
    /\ dp_tree = {} /\ dp_fmt = "none" /\ dp_window = NoRec /\ dp_cached = {}
    /\ dp_found = {} /\ dp_pc = "idle"

TgIdle ==
    /\ tg_input = {} /\ tg_cache = NoRec /\ tg_log = <<>> /\ tg_pc = "idle"

(***************************************************************************)
(* Train counts: features/streaming_train_counts.py                        *)
(***************************************************************************)
\* ---- bounds -----------------------------------------------------------
MaxHops == 3      \* rows of an exploded frame drawn directly
MaxHour == 3      \* absolute hours 0..MaxHour of a drawn exploded frame
NumLocs == 2      \* ELR_MIL identifiers 1..NumLocs
MaxDate == 7      \* calendar dates 0..MaxDate; date 0 is a Monday
MaxRows == 2      \* rows of a drawn timetable slice

Locs == 1..NumLocs
NaN == 0          \* an unmapped STANOX: location_to_ELR_MIL leaves NaN

Dates == 0..MaxDate
HoursPerDay == 24
MinutesPerHour == 60
DaysPerWeek == 7

\* datetime.weekday(): Monday is 0
Weekday(d) == d % DaysPerWeek

\* ---- the difference array (lines 94-113) --------------------------------
\* min_h = dep_h.min()
MinH(c) == SetMin({c[i].dep_h : i \in DOMAIN c})
\* span = int(arr_h.max() - min_h + 1)
Span(c) == SetMax({c[i].arr_h : i \in DOMAIN c}) - MinH(c) + 1
\* locs = np.unique(cal["ELR_MIL"])
LocsOf(c) == {c[i].ELR_MIL : i \in DOMAIN c}

\* a plausible slip: the decrement lands on the arrival hour itself
DiffAtArrival(c, l, j) ==
    Cardinality({i \in DOMAIN c : c[i].ELR_MIL = l /\ c[i].dep_h - MinH(c) = j})
  - Cardinality({i \in DOMAIN c : c[i].ELR_MIL = l /\ c[i].arr_h - MinH(c) = j})

\* diff after the two np.add.at calls: +1 at dep_h - min_h, -1 at
\* arr_h - min_h + 1, accumulated over every row (np.add.at is unbuffered)
DiffAt(c, l, j) ==
    Cardinality({i \in DOMAIN c : c[i].ELR_MIL = l /\ c[i].dep_h - MinH(c) = j})
  - Cardinality({i \in DOMAIN c : c[i].ELR_MIL = l /\ c[i].arr_h - MinH(c) + 1 = j})

\* diff.cumsum(axis=1), column j of row l
RECURSIVE CumSum(_, _, _)
CumSum(c, l, j) ==
    IF j = 0 THEN DiffAt(c, l, 0) ELSE CumSum(c, l, j - 1) + DiffAt(c, l, j)

\* counts = diff.cumsum(axis=1)[:, :-1], stacked over (ELR_MIL, run_hour)
HourlyCounts(c) ==
    [k \in LocsOf(c) \X (MinH(c)..(MinH(c) + Span(c) - 1)) |->
        CumSum(c, k[1], k[2] - MinH(c))]

\* ---- collapse (lines 79-86) ----------------------------------------------
GroupKey(r) == <<r.train_id, r.ELR_MIL, r.start_date, r.end_date, r.daysofweek>>

\* groupby(..., sort=False) keeps groups in order of first appearance and
\* (dropna default) drops the rows whose key holds NaN
IsGroupHead(df, i) ==
    /\ df[i].ELR_MIL # NaN
    /\ \A j \in 1..(i - 1) : GroupKey(df[j]) # GroupKey(df[i])

GroupOf(df, i) == {j \in DOMAIN df : GroupKey(df[j]) = GroupKey(df[i])}

\* dep_time=("dep_time", "min")
AggDepTime(df, i) == SetMin({df[j].dep_time : j \in GroupOf(df, i)})

\* arr_time=("dep_time", "max"): the aggregate reads the dep_time column
AggArrTime(df, i) == SetMax({df[j].dep_time : j \in GroupOf(df, i)})

CollapsedRow(df, i) ==
    [train_id |-> df[i].train_id, ELR_MIL |-> df[i].ELR_MIL,
     start_date |-> df[i].start_date, end_date |-> df[i].end_date,
     daysofweek |-> df[i].daysofweek,
     dep_time |-> AggDepTime(df, i), arr_time |-> AggArrTime(df, i)]

RECURSIVE CollapseFrom(_, _)
CollapseFrom(df, i) ==
    IF i > Len(df) THEN <<>>
    ELSE (IF IsGroupHead(df, i) THEN <<CollapsedRow(df, i)>> ELSE <<>>)
         \o CollapseFrom(df, i + 1)

Collapse(df) == CollapseFrom(df, 1)

\* ---- _explode_days (lines 37-70) ------------------------------------------
Uint16Modulus == 65536
MaskBits == 7
\* np.arange step 7_200_000_000_000 ns, in hours
ArangeStepHours == 2

\* the CIF mask "1000000" read as a number: the column holds the seven
\* characters, to_numpy(dtype=np.uint16) reads them as a decimal integer
RECURSIVE DecimalValue(_)
DecimalValue(m) ==
    IF m = <<>> THEN 0
    ELSE Head(m) * 10 ^ (Len(m) - 1) + DecimalValue(Tail(m))

\* mask = df["daysofweek"].to_numpy(dtype=np.uint16)
MaskValue(m) == DecimalValue(m) % Uint16Modulus

\* bits = ((mask[:, None] >> np.arange(6, -1, -1)) & 1): column dow (Mon=0)
MaskBit(m, dow) == (MaskValue(m) \div 2 ^ (MaskBits - 1 - dow)) % 2

\* start = start_date + (dow - start_date.weekday()) % 7 days
FirstRun(r, dow) == r.start_date + ((dow - Weekday(r.start_date)) % DaysPerWeek)

\* counts = ((end_date - start) // 7 days) + 1
RunCount(r, dow) == ((r.end_date - FirstRun(r, dow)) \div DaysPerWeek) + 1

\* the k-th element of np.arange(s, s + step * n, step), normalised to a date
RunDate(r, dow, k) == FirstRun(r, dow) + ((k * ArangeStepHours) \div HoursPerDay)

\* the rows one frame row contributes for one weekday column
RECURSIVE RowRuns(_, _, _, _)
RowRuns(df, i, dow, k) ==
    IF k >= RunCount(df[i], dow) THEN <<>>
    ELSE <<[row |-> i, run_date |-> RunDate(df[i], dow, k)]>>
         \o RowRuns(df, i, dow, k + 1)

\* part = df[df[col]]; part.loc[rep_idx].assign(run_date=dates)
RECURSIVE PartRuns(_, _, _)
PartRuns(df, dow, i) ==
    IF i > Len(df) THEN <<>>
    ELSE (IF MaskBit(df[i].daysofweek, dow) = 1 THEN RowRuns(df, i, dow, 0) ELSE <<>>)
         \o PartRuns(df, dow, i + 1)

PartEmpty(df, dow) == \A i \in DOMAIN df : MaskBit(df[i].daysofweek, dow) = 0

\* pd.concat of an empty list raises ValueError; index.repeat of a negative
\* count raises ValueError
ExplodeRaises(df) ==
    \/ \A dow \in 0..(DaysPerWeek - 1) : PartEmpty(df, dow)
    \/ \E dow \in 0..(DaysPerWeek - 1), i \in DOMAIN df :
          MaskBit(df[i].daysofweek, dow) = 1 /\ RunCount(df[i], dow) < 0

RECURSIVE ExplodeFrom(_, _)
ExplodeFrom(df, dow) ==
    IF dow >= DaysPerWeek THEN <<>>
    ELSE PartRuns(df, dow, 1) \o ExplodeFrom(df, dow + 1)

ExplodeDays(df) == ExplodeFrom(df, 0)

\* ---- run timestamps (lines 90-95) ------------------------------------------
HHMMBase == 100
\* _hhmm_to_timedelta, in minutes
HhmmToMinutes(t) == (t \div HHMMBase) * MinutesPerHour + (t % HHMMBase)

DepDt(r, d) == d * HoursPerDay * MinutesPerHour + HhmmToMinutes(r.dep_time)
ArrDt0(r, d) == d * HoursPerDay * MinutesPerHour + HhmmToMinutes(r.arr_time)
\* cal.loc[cal["arr_dt"] < cal["dep_dt"], "arr_dt"] += 1 day
ArrDt(r, d) ==
    IF ArrDt0(r, d) < DepDt(r, d)
    THEN ArrDt0(r, d) + HoursPerDay * MinutesPerHour
    ELSE ArrDt0(r, d)

CalRow(df, e) ==
    [ELR_MIL |-> df[e.row].ELR_MIL,
     dep_h |-> DepDt(df[e.row], e.run_date) \div MinutesPerHour,
     arr_h |-> ArrDt(df[e.row], e.run_date) \div MinutesPerHour]

CalOf(df, ex) == [n \in DOMAIN ex |-> CalRow(df, ex[n])]

\* ---- inputs ------------------------------------------------------------------
MonOnly == <<1, 0, 0, 0, 0, 0, 0>>
TueOnly == <<0, 1, 0, 0, 0, 0, 0>>
SunOnly == <<0, 0, 0, 0, 0, 0, 1>>
WeekendOnly == <<0, 0, 0, 0, 0, 1, 1>>
EveryDay == <<1, 1, 1, 1, 1, 1, 1>>
Masks == {MonOnly, TueOnly, SunOnly, WeekendOnly, EveryDay}

\* exploded rows as lines 94-95 see them: dep_h <= arr_h always, because
\* line 92 moves an earlier arrival to the next day
CalRows ==
    {r \in [ELR_MIL : Locs, dep_h : 0..MaxHour, arr_h : 0..MaxHour] : r.dep_h <= r.arr_h}

\* frames handed to _explode_days
ExplodeRows ==
    {r \in [train_id : {1}, ELR_MIL : {1}, start_date : Dates, end_date : Dates,
            daysofweek : Masks, dep_time : {800}, arr_time : {800}] :
        r.start_date <= r.end_date}

\* timetable rows of one slice; cif_arr is the arrival time iter_hops read for
\* the hop (arr_hhmm), which the Hop record and the frame do not carry
DepTimes == {30, 2315}
ArrTimes == {45, 2330}
SliceEnd == 1
TimetableRows ==
    [train_id : 1..2, ELR_MIL : Locs \cup {NaN}, start_date : {0},
     end_date : 0..SliceEnd, daysofweek : {MonOnly, EveryDay},
     dep_time : DepTimes, cif_arr : ArrTimes]

\* ---- lines 94-113 applied to an exploded frame ------------------------------
InitHourly ==
    /\ cal \in SeqsOf(CalRows, 1, MaxHops)
    /\ tt_df = <<>> /\ collapsed = <<>> /\ exploded = <<>> /\ counts = <<>>
    /\ hc_pc = "count"

CountHours ==
    /\ hc_pc = "count"
    /\ counts' = HourlyCounts(cal)
    /\ hc_pc' = "done"
    /\ UNCHANGED <<tt_df, collapsed, exploded, cal>>

NextHourly == CountHours /\ UNCHANGED <<cif_vars, bp_vars, dl_vars, gc_vars, tb_vars, wx_vars, inc_vars, mf_vars, tm_vars, sv_vars, cr_vars, ls_vars, wp_vars, oz_vars, co_vars, sw_vars, tc_vars, dp_vars, tg_vars>>

StartHourly == InitHourly /\ CifIdle /\ BpIdle /\ DlIdle /\ GcIdle /\ TbIdle /\ WxIdle /\ IncIdle /\ MfIdle /\ TmIdle /\ SvIdle /\ CrIdle /\ LsIdle /\ WpIdle /\ OzIdle /\ CoIdle /\ SwIdle /\ TcIdle /\ DpIdle /\ TgIdle

SpecHourly == StartHourly /\ [][NextHourly]_vars

\* ---- _explode_days applied to a frame ------------------------------------------
InitExplode ==
    /\ collapsed \in SeqsOf(ExplodeRows, 1, MaxRows)
    /\ tt_df = <<>> /\ exploded = <<>> /\ cal = <<>> /\ counts = <<>>
    /\ hc_pc = "explode"

Explode ==
    /\ hc_pc = "explode"
    /\ IF ExplodeRaises(collapsed)
       THEN /\ hc_pc' = "error"
            /\ UNCHANGED exploded
       ELSE /\ exploded' = ExplodeDays(collapsed)
            /\ hc_pc' = "done"
    /\ UNCHANGED <<tt_df, collapsed, cal, counts>>

NextExplode == Explode /\ UNCHANGED <<cif_vars, bp_vars, dl_vars, gc_vars, tb_vars, wx_vars, inc_vars, mf_vars, tm_vars, sv_vars, cr_vars, ls_vars, wp_vars, oz_vars, co_vars, sw_vars, tc_vars, dp_vars, tg_vars>>

StartExplode == InitExplode /\ CifIdle /\ BpIdle /\ DlIdle /\ GcIdle /\ TbIdle /\ WxIdle /\ IncIdle /\ MfIdle /\ TmIdle /\ SvIdle /\ CrIdle /\ LsIdle /\ WpIdle /\ OzIdle /\ CoIdle /\ SwIdle /\ TcIdle /\ DpIdle /\ TgIdle

SpecExplode == StartExplode /\ [][NextExplode]_vars

\* ---- _build_hourly_counts (lines 73-116) ---------------------------------------
InitCounts ==
    /\ tt_df \in SeqsOf(TimetableRows, 1, MaxRows)
    /\ collapsed = <<>> /\ exploded = <<>> /\ cal = <<>> /\ counts = <<>>
    /\ hc_pc = "build"

\* an empty frame makes _explode_days raise (nothing to concatenate) and an
\* empty exploded frame makes dep_h.min() raise
BuildRaises(df) ==
    \/ ExplodeRaises(Collapse(df))
    \/ ExplodeDays(Collapse(df)) = <<>>

BuildHourlyCounts ==
    /\ hc_pc = "build"
    /\ IF BuildRaises(tt_df)
       THEN /\ hc_pc' = "error"
            /\ UNCHANGED <<collapsed, exploded, cal, counts>>
       ELSE /\ collapsed' = Collapse(tt_df)
            /\ exploded' = ExplodeDays(collapsed')
            /\ cal' = CalOf(collapsed', exploded')
            /\ counts' = HourlyCounts(cal')
            /\ hc_pc' = "done"
    /\ UNCHANGED tt_df

NextCounts == BuildHourlyCounts /\ UNCHANGED <<cif_vars, bp_vars, dl_vars, gc_vars, tb_vars, wx_vars, inc_vars, mf_vars, tm_vars, sv_vars, cr_vars, ls_vars, wp_vars, oz_vars, co_vars, sw_vars, tc_vars, dp_vars, tg_vars>>

StartCounts == InitCounts /\ CifIdle /\ BpIdle /\ DlIdle /\ GcIdle /\ TbIdle /\ WxIdle /\ IncIdle /\ MfIdle /\ TmIdle /\ SvIdle /\ CrIdle /\ LsIdle /\ WpIdle /\ OzIdle /\ CoIdle /\ SwIdle /\ TcIdle /\ DpIdle /\ TgIdle

SpecCounts == StartCounts /\ [][NextCounts]_vars

(***************************************************************************)
(* Claims on the train-count pipeline                                      *)
(***************************************************************************)
\* the hops of a frame that occupy (l, h): a per-hour enumeration
NaiveCount(c, l, h) ==
    Cardinality({i \in DOMAIN c :
        c[i].ELR_MIL = l /\ c[i].dep_h <= h /\ h <= c[i].arr_h})

\* C1: for every ELR_MIL of the frame and every hour of its span, the count
\* the difference array gives is the number of hops at that ELR_MIL whose
\* inclusive [departure hour, arrival hour] range holds the hour.
C1_DiffArrayMatchesNaive ==
    hc_pc = "done" =>
        /\ DOMAIN counts =
             LocsOf(cal) \X (MinH(cal)..SetMax({cal[i].arr_h : i \in DOMAIN cal}))
        /\ \A k \in DOMAIN counts : counts[k] = NaiveCount(cal, k[1], k[2])

\* a hop of three hour-buckets (H, H+1, H+2) overlapped by another hop
C1_Witness ==
    /\ hc_pc = "done"
    /\ \E i \in DOMAIN cal :
          /\ cal[i].arr_h = cal[i].dep_h + 2
          /\ \A h \in cal[i].dep_h..cal[i].arr_h : counts[<<cal[i].ELR_MIL, h>>] >= 1
          /\ \E h \in cal[i].dep_h..cal[i].arr_h : counts[<<cal[i].ELR_MIL, h>>] = 2

\* C2: a collapsed row carries the earliest departure time of its group and
\* the latest arrival time observed in its group.
C2_CollapseKeepsLatestArrival ==
    hc_pc = "done" =>
        \A n \in DOMAIN collapsed :
            \E i \in DOMAIN tt_df :
                /\ GroupKey(tt_df[i]) = GroupKey(collapsed[n])
                /\ collapsed[n].dep_time =
                     SetMin({tt_df[j].dep_time : j \in GroupOf(tt_df, i)})
                /\ collapsed[n].arr_time =
                     SetMax({tt_df[j].cif_arr : j \in GroupOf(tt_df, i)})

\* C3: one exploded row for each date of [start_date, end_date] whose weekday
\* bit is set in the row's mask, and no other row.
C3_ExplodeMatchesCalendar ==
    hc_pc = "done" =>
        \A i \in DOMAIN collapsed, d \in 0..(MaxDate + DaysPerWeek) :
            Cardinality({n \in DOMAIN exploded :
                exploded[n].row = i /\ exploded[n].run_date = d})
            = IF /\ collapsed[i].start_date <= d
                 /\ d <= collapsed[i].end_date
                 /\ collapsed[i].daysofweek[Weekday(d) + 1] = 1
              THEN 1 ELSE 0

(***************************************************************************)
(* CIF hops: rail_io/cif_hop_extract.py                                    *)
(***************************************************************************)
MaxStops == 3     \* location records read within one schedule

Digits == {"0", "1", "2", "3", "4", "5", "6", "7", "8", "9"}
DigitVal ==
    [c \in Digits |->
        CASE c = "0" -> 0 [] c = "1" -> 1 [] c = "2" -> 2 [] c = "3" -> 3
          [] c = "4" -> 4 [] c = "5" -> 5 [] c = "6" -> 6 [] c = "7" -> 7
          [] c = "8" -> 8 [] c = "9" -> 9]

\* str.strip()
RECURSIVE StripLeft(_)
StripLeft(t) == IF t # <<>> /\ Head(t) = " " THEN StripLeft(Tail(t)) ELSE t
RECURSIVE StripRight(_)
StripRight(t) ==
    IF t # <<>> /\ t[Len(t)] = " " THEN StripRight(SubSeq(t, 1, Len(t) - 1)) ELSE t
Strip(t) == StripRight(StripLeft(t))

\* str.zfill(4)
RECURSIVE ZFill4(_)
ZFill4(t) == IF Len(t) >= 4 THEN t ELSE ZFill4(<<"0">> \o t)

\* int() of a string of digits
RECURSIVE IntOf(_)
IntOf(t) == IF t = <<>> THEN 0 ELSE IntOf(SubSeq(t, 1, Len(t) - 1)) * 10 + DigitVal[t[Len(t)]]

\* _normalize_time: the text "HHMM" of a valid time of day, written here as
\* the number HH * 100 + MM, or None
NormalizeTime(raw) ==
    LET t == Strip(raw) IN
    IF ~(1 <= Len(t) /\ Len(t) <= 5 /\ \A i \in DOMAIN t : t[i] \in Digits)
    THEN NoTime
    ELSE LET z == ZFill4(t)
             hh == IntOf(SubSeq(z, 1, 2))
             mm == IntOf(SubSeq(z, 3, Len(z)))
         IN IF 0 <= hh /\ hh < 24 /\ 0 <= mm /\ mm < 60
            THEN hh * 100 + mm ELSE NoTime

\* _seconds_since_midnight: int(hhmm[:2]) * 60 + int(hhmm[2:])
SecondsSinceMidnight(hhmm) == (hhmm \div 100) * 60 + (hhmm % 100)

\* tip2stanox as build_tiploc_maps leaves it; TIPX has no STANOX
Tiplocs == {"TIPA", "TIPB", "TIPX"}
Tip2Stanox(tip) ==
    CASE tip = "TIPA" -> "10001"
      [] tip = "TIPB" -> "10002"
      [] OTHER -> NoValue

\* the time fields a record can hold (cols 11-14, cols 16-19)
RawTimes ==
    {<<"2", "3", "5", "0">>, <<" ", "9", "3", "0">>, <<"2", "4", "6", "0">>}

TrainIds == {"TRNID1", "TRNID2"}
DayMasks == {MonOnly, SunOnly, EveryDay}
LocRecs == {"LO", "LI", "LT"}

\* a slip: the mask turned the other way (first bit moved to the back)
RotateLeft(m) == Tail(m) \o <<Head(m)>>

\* adj_days[-1] + adj_days[:-1]
RotateDays(m) == <<m[Len(m)]>> \o SubSeq(m, 1, Len(m) - 1)

\* lines 132-134
AdjDays(days, dep_hhmm, last_dep) ==
    IF SecondsSinceMidnight(dep_hhmm) < SecondsSinceMidnight(last_dep)
    THEN RotateDays(days) ELSE days

\* the Hop of lines 135-144; train_service_id, start_date and end_date are
\* copied from the BS record exactly as train_id is
Hop(stanox, dep_hhmm) ==
    [train_id |-> train_id, stanox_dep |-> last_stanox, stanox_arr |-> stanox,
     daysofweek |-> AdjDays(days_run, dep_hhmm, last_dep_time),
     dep_time |-> last_dep_time]

IsLoc(r) == r.rec \in LocRecs
\* what a later Hop may take from a location record
StopOf(r) == [rec |-> r.rec, stanox |-> r.stanox, dep |-> r.dep]

InitCif ==
    /\ train_id = "" /\ days_run = <<0, 0, 0, 0, 0, 0, 0>>
    /\ last_dep_time = NoTime /\ last_stanox = NoValue
    /\ emitted = <<>> /\ cif_pc = "scan"
    /\ cur_rec = NoRec /\ prev_loc = NoRec
    /\ sched_shape = "none" /\ sched_locs = 0 /\ sched_hops = 0

\* a BS record (lines 111-118)
ReadBS ==
    /\ cif_pc = "scan"
    /\ \E tid \in TrainIds, mask \in DayMasks :
          /\ train_id' = tid
          /\ days_run' = mask
          /\ cur_rec' = [rec |-> "BS", train_id |-> tid, days_run |-> mask]
    /\ last_dep_time' = NoTime /\ last_stanox' = NoValue
    /\ emitted' = <<>>
    /\ prev_loc' = NoRec
    /\ sched_shape' = "BS" /\ sched_locs' = 0 /\ sched_hops' = 0
    /\ UNCHANGED cif_pc

\* any record that is neither BS nor LO/LI/LT (lines 119-120)
ReadOther ==
    /\ cif_pc = "scan"
    /\ cur_rec.rec # "other"
    /\ cur_rec' = [rec |-> "other"]
    /\ prev_loc' = IF IsLoc(cur_rec) THEN StopOf(cur_rec) ELSE prev_loc
    /\ emitted' = <<>>
    /\ UNCHANGED <<train_id, days_run, last_dep_time, last_stanox, cif_pc,
                   sched_shape, sched_locs, sched_hops>>

\* the shape of the schedule after a location record with these fields
NextShape(rec, stanox, arr, dep) ==
    CASE rec = "LO" /\ sched_shape = "BS" /\ stanox # NoValue /\ dep # NoTime
            -> "open"
      [] rec = "LI" /\ sched_shape = "open" /\ stanox # NoValue
                    /\ arr # NoTime /\ dep # NoTime
            -> "open"
      [] rec = "LT" /\ sched_shape = "open" /\ stanox # NoValue /\ arr # NoTime
            -> "closed"
      [] OTHER -> "broken"

\* a location record (lines 121-147): t1 is cols 11-14, t2 is cols 16-19
ReadLoc(rec, tip, t1, t2) ==
    LET stanox == Tip2Stanox(tip)
        \* lines 125-130: LT sets neither time
        arr_hhmm == IF rec = "LI" THEN NormalizeTime(t1) ELSE NoTime
        dep_hhmm == IF rec = "LO" THEN NormalizeTime(t1)
                    ELSE IF rec = "LI" THEN NormalizeTime(t2) ELSE NoTime
        \* what the record holds: an LT record holds its arrival in cols 11-14
        rec_arr == IF rec \in {"LI", "LT"} THEN NormalizeTime(t1) ELSE NoTime
        yields == last_stanox # NoValue /\ last_dep_time # NoTime /\ arr_hhmm # NoTime
    IN
    /\ cif_pc = "scan"
    /\ sched_locs < MaxStops
    /\ cur_rec' = [rec |-> rec, stanox |-> stanox, arr |-> rec_arr, dep |-> dep_hhmm]
    /\ prev_loc' = IF IsLoc(cur_rec) THEN StopOf(cur_rec) ELSE prev_loc
    /\ sched_shape' = NextShape(rec, stanox, rec_arr, dep_hhmm)
    /\ sched_locs' = sched_locs + 1
    /\ UNCHANGED <<train_id, days_run>>
    /\ IF stanox = NoValue
       THEN \* line 123-124: continue
            /\ emitted' = <<>>
            /\ UNCHANGED <<last_dep_time, last_stanox, cif_pc, sched_hops>>
       ELSE IF yields /\ dep_hhmm = NoTime
       THEN \* line 133: _seconds_since_midnight(None) raises TypeError
            /\ cif_pc' = "error"
            /\ emitted' = <<>>
            /\ UNCHANGED <<last_dep_time, last_stanox, sched_hops>>
       ELSE /\ emitted' = IF yields THEN <<Hop(stanox, dep_hhmm)>> ELSE <<>>
            /\ sched_hops' = IF yields THEN sched_hops + 1 ELSE sched_hops
            /\ last_dep_time' = IF dep_hhmm # NoTime THEN dep_hhmm ELSE last_dep_time
            /\ last_stanox' = IF dep_hhmm # NoTime THEN stanox ELSE last_stanox
            /\ UNCHANGED cif_pc

ReadLO == \E tip \in Tiplocs, t1 \in RawTimes : ReadLoc("LO", tip, t1, t1)
ReadLI == \E tip \in Tiplocs, t1 \in RawTimes, t2 \in RawTimes : ReadLoc("LI", tip, t1, t2)
ReadLT == \E tip \in Tiplocs, t1 \in RawTimes : ReadLoc("LT", tip, t1, t1)

NextCif ==
    \/ ReadBS /\ UNCHANGED <<hc_vars, bp_vars, dl_vars, gc_vars, tb_vars, wx_vars, inc_vars, mf_vars, tm_vars, sv_vars, cr_vars, ls_vars, wp_vars, oz_vars, co_vars, sw_vars, tc_vars, dp_vars, tg_vars>>
    \/ ReadOther /\ UNCHANGED <<hc_vars, bp_vars, dl_vars, gc_vars, tb_vars, wx_vars, inc_vars, mf_vars, tm_vars, sv_vars, cr_vars, ls_vars, wp_vars, oz_vars, co_vars, sw_vars, tc_vars, dp_vars, tg_vars>>
    \/ ReadLO /\ UNCHANGED <<hc_vars, bp_vars, dl_vars, gc_vars, tb_vars, wx_vars, inc_vars, mf_vars, tm_vars, sv_vars, cr_vars, ls_vars, wp_vars, oz_vars, co_vars, sw_vars, tc_vars, dp_vars, tg_vars>>
    \/ ReadLI /\ UNCHANGED <<hc_vars, bp_vars, dl_vars, gc_vars, tb_vars, wx_vars, inc_vars, mf_vars, tm_vars, sv_vars, cr_vars, ls_vars, wp_vars, oz_vars, co_vars, sw_vars, tc_vars, dp_vars, tg_vars>>
    \/ ReadLT /\ UNCHANGED <<hc_vars, bp_vars, dl_vars, gc_vars, tb_vars, wx_vars, inc_vars, mf_vars, tm_vars, sv_vars, cr_vars, ls_vars, wp_vars, oz_vars, co_vars, sw_vars, tc_vars, dp_vars, tg_vars>>

StartCif == InitCif /\ HcIdle /\ BpIdle /\ DlIdle /\ GcIdle /\ TbIdle /\ WxIdle /\ IncIdle /\ MfIdle /\ TmIdle /\ SvIdle /\ CrIdle /\ LsIdle /\ WpIdle /\ OzIdle /\ CoIdle /\ SwIdle /\ TcIdle /\ DpIdle /\ TgIdle

SpecCif == StartCif /\ [][NextCif]_vars

(***************************************************************************)
(* Claims on iter_hops                                                     *)
(***************************************************************************)
\* C4: in a schedule BS, LO, LI*, LT with mapped TIPLOCs and valid times every
\* location record after the first yields exactly one Hop, the record that
\* ends at LT included; the Hop carries the previous record's STANOX and
\* departure time and this record's STANOX; a Hop never spans two schedules.
C4_OneHopPerConsecutivePair ==
    /\ (IsLoc(cur_rec) /\ cur_rec.rec # "LO" /\ sched_shape \in {"open", "closed"}) =>
          /\ Len(emitted) = 1
          /\ emitted[1].stanox_dep = prev_loc.stanox
          /\ emitted[1].dep_time = prev_loc.dep
          /\ emitted[1].stanox_arr = cur_rec.stanox
          /\ emitted[1].train_id = train_id
          /\ sched_hops = sched_locs - 1
    /\ emitted # <<>> => (IsLoc(prev_loc) /\ sched_locs >= 2)

\* the mask with its last bit moved to the front
RotatedRight(m) == [i \in 1..Len(m) |-> IF i = 1 THEN m[Len(m)] ELSE m[i - 1]]

\* C5: a Hop whose record departs numerically earlier than the prior stop's
\* departure carries the schedule's mask rotated right by one bit; every
\* other Hop carries the schedule's mask unchanged.
C5_MaskRotatedOnWrap ==
    emitted # <<>> =>
        emitted[1].daysofweek =
            IF (cur_rec.dep \div 100) * 60 + (cur_rec.dep % 100)
                 < (emitted[1].dep_time \div 100) * 60 + (emitted[1].dep_time % 100)
            THEN RotatedRight(days_run) ELSE days_run

\* a Sunday-only schedule whose hop wraps past midnight is emitted Monday-only
C5_Witness ==
    /\ emitted # <<>>
    /\ days_run = SunOnly
    /\ cur_rec.dep < emitted[1].dep_time
    /\ emitted[1].daysofweek = MonOnly

(***************************************************************************)
(* Business periods: rail_io/extract_delay.py, features/extract_incidents.py *)
(***************************************************************************)
\* ---- a calendar: dates are day ordinals counted from 1 January EpochYear,
\* datetimes are ticks, TicksPerDay to the day (tick 0 of a day is midnight)
EpochYear == 2023
TicksPerDay == 2
RangeDays == 40   \* the calls draw their dates from RangeDays days

IsLeap(y) == (y % 4 = 0 /\ y % 100 # 0) \/ y % 400 = 0
DaysInYear(y) == IF IsLeap(y) THEN 366 ELSE 365
DaysInMonth(y, m) ==
    CASE m \in {4, 6, 9, 11} -> 30
      [] m = 2 -> IF IsLeap(y) THEN 29 ELSE 28
      [] OTHER -> 31

RECURSIVE DaysBeforeYear(_)
DaysBeforeYear(y) ==
    IF y = EpochYear THEN 0
    ELSE IF y > EpochYear THEN DaysBeforeYear(y - 1) + DaysInYear(y - 1)
    ELSE DaysBeforeYear(y + 1) - DaysInYear(y)
RECURSIVE DaysBeforeMonth(_, _)
DaysBeforeMonth(y, m) == IF m <= 1 THEN 0 ELSE DaysBeforeMonth(y, m - 1) + DaysInMonth(y, m - 1)

\* dt.datetime(y, m, d) at midnight, as a day ordinal
Ordinal(y, m, d) == DaysBeforeYear(y) + DaysBeforeMonth(y, m) + (d - 1)

CalYears == (EpochYear - 2)..(EpochYear + 3)
YearOf(n) == CHOOSE y \in CalYears : Ordinal(y, 1, 1) <= n /\ n < Ordinal(y + 1, 1, 1)
MonthOf(n) ==
    CHOOSE m \in 1..12 :
        /\ Ordinal(YearOf(n), m, 1) <= n
        /\ n < Ordinal(YearOf(n), m, 1) + DaysInMonth(YearOf(n), m)
DayOf(n) == n - Ordinal(YearOf(n), MonthOf(n), 1) + 1

DateOf(t) == t \div TicksPerDay
Midnight(n) == n * TicksPerDay

\* ---- _YEAR_START, _PART_DURATION
YearStartMonth == 4
YearStartDay == 1
PartDurationDays == 28

\* _business_year_start: the year of the 1 April on or before the date
BusinessYear(t) ==
    LET n == DateOf(t) IN
    IF MonthOf(n) < YearStartMonth
         \/ (MonthOf(n) = YearStartMonth /\ DayOf(n) < YearStartDay)
    THEN YearOf(n) - 1 ELSE YearOf(n)

\* by_start, by_end (midnight datetimes)
ByStart(year) == Midnight(Ordinal(year, YearStartMonth, YearStartDay))
ByEnd(year) == Midnight(Ordinal(year + 1, YearStartMonth, YearStartDay) - 1)

\* code = f"{year}{str(year + 1)[2:]}", its digits read as a number
Code(year) == year * 100 + ((year + 1) % 100)

\* total_days = (by_end - by_start).days + 1
TotalDays(year) == DateOf(ByEnd(year)) - DateOf(ByStart(year)) + 1

\* parts_per_year = math.ceil(total_days / part_duration.days)
PartsPerYear(year) == (TotalDays(year) + PartDurationDays - 1) \div PartDurationDays

PartStart(year, k) == ByStart(year) + Midnight(PartDurationDays * (k - 1))

PartEnd(year, k) ==
    IF k < PartsPerYear(year)
    THEN PartStart(year, k) + Midnight(PartDurationDays) - Midnight(1)
    ELSE ByEnd(year)

\* the pairs the two loops of a builder add (extract_delay.py lines 71-84,
\* extract_incidents.py lines 59-75)
PeriodPairs(start, end) ==
    {<<Code(year), k>> :
        <<year, k>> \in
            {yk \in (BusinessYear(start)..BusinessYear(end)) \X (1..14) :
                /\ yk[2] <= PartsPerYear(yk[1])
                /\ PartStart(yk[1], yk[2]) <= end
                /\ PartEnd(yk[1], yk[2]) >= start}}

\* ---- the calls
FirstDate == Ordinal(2024, 3, 20)
CallTicks == Midnight(FirstDate)..(Midnight(FirstDate + RangeDays) - 1)

InitPeriods ==
    /\ bp_start \in CallTicks /\ bp_end \in CallTicks
    /\ bp_periods = {} /\ bp_pc = "call"

\* extract_delay._build_business_period_map (a dict code -> set of "Pnn").
\* Its first step after the range test is _business_year_start(start_date),
\* which names its argument dt: the dt of its last line,
\* dt.datetime(dt_year, ...), is the datetime passed in and not the module,
\* and the attribute lookup raises.  The loops that fill the dict never run.
BuildBusinessPeriodMap ==
    /\ bp_pc = "call"
    /\ bp_pc' = IF bp_start > bp_end THEN "ValueError" ELSE "AttributeError"
    /\ UNCHANGED bp_periods
    /\ UNCHANGED <<bp_start, bp_end>>

\* extract_incidents._build_business_period_map: a list of
\* "delay_<code>_Pnn"; _delay_files uses it as a set
BuildBusinessPeriodList ==
    /\ bp_pc = "call"
    /\ IF bp_start > bp_end
       THEN bp_pc' = "ValueError" /\ UNCHANGED bp_periods
       ELSE bp_pc' = "list" /\ bp_periods' = PeriodPairs(bp_start, bp_end)
    /\ UNCHANGED <<bp_start, bp_end>>

NextPeriods ==
    \/ BuildBusinessPeriodMap /\ UNCHANGED <<hc_vars, cif_vars, dl_vars, gc_vars, tb_vars, wx_vars, inc_vars, mf_vars, tm_vars, sv_vars, cr_vars, ls_vars, wp_vars, oz_vars, co_vars, sw_vars, tc_vars, dp_vars, tg_vars>>
    \/ BuildBusinessPeriodList /\ UNCHANGED <<hc_vars, cif_vars, dl_vars, gc_vars, tb_vars, wx_vars, inc_vars, mf_vars, tm_vars, sv_vars, cr_vars, ls_vars, wp_vars, oz_vars, co_vars, sw_vars, tc_vars, dp_vars, tg_vars>>

StartPeriods == InitPeriods /\ HcIdle /\ CifIdle /\ DlIdle /\ GcIdle /\ TbIdle /\ WxIdle /\ IncIdle /\ MfIdle /\ TmIdle /\ SvIdle /\ CrIdle /\ LsIdle /\ WpIdle /\ OzIdle /\ CoIdle /\ SwIdle /\ TcIdle /\ DpIdle /\ TgIdle

SpecPeriods == StartPeriods /\ [][NextPeriods]_vars

(***************************************************************************)
(* Claims on the business-period map                                       *)
(***************************************************************************)
\* the period of a fiscal year as the calendar defines it: from a boundary
\* (every 28 days from 1 April) up to the next boundary or the next 1 April
BoundaryCount(year) == (TotalDays(year) + PartDurationDays - 1) \div PartDurationDays
PeriodFrom(year, k) == ByStart(year) + Midnight(PartDurationDays * (k - 1))
PeriodUntil(year, k) ==
    IF PeriodFrom(year, k) + Midnight(PartDurationDays) < ByStart(year + 1)
    THEN PeriodFrom(year, k) + Midnight(PartDurationDays)
    ELSE ByStart(year + 1)

\* C6: for start <= end the map holds exactly the (fiscal-year code, period)
\* pairs whose period interval intersects [start, end].
C6_MapIsExactlyIntersectingPeriods ==
    (bp_pc \in {"map", "AttributeError"} /\ bp_start <= bp_end) =>
        /\ bp_pc = "map"
        /\ bp_periods =
            {<<Code(yk[1]), yk[2]>> :
                yk \in {yk \in (2022..2025) \X (1..14) :
                    /\ yk[2] <= BoundaryCount(yk[1])
                    /\ PeriodFrom(yk[1], yk[2]) <= bp_end
                    /\ bp_start < PeriodUntil(yk[1], yk[2])}}

\* C7: both builders return periods P01..P13 only, and a range within the
\* days left after twelve 28-day periods, up to 31 March, is period P13.
C7_ThirteenPeriods ==
    bp_pc \in {"map", "list"} =>
        /\ \A p \in bp_periods : 1 <= p[2] /\ p[2] <= 13
        /\ \A year \in 2022..2025 :
              (/\ ByStart(year) + Midnight(PartDurationDays * 12) <= bp_start
               /\ bp_end < ByStart(year + 1))
              => bp_periods = {<<Code(year), 13>>}

(***************************************************************************)
(* Delay archives: rail_io/extract_delay.py, rail_io/delay_processor.py    *)
(***************************************************************************)
DelayPeriods == 2   \* the season ZIP holds archives for periods 1..DelayPeriods

Periods == 1..DelayPeriods

\* the archive <season>_P<nn>.zip inside the season ZIP
ArchiveKinds == {"good", "corrupt", "nocsv", "unreadable", "absent"}

\* src_dir: not a directory; holds no ZIP; holds another season's ZIP only;
\* holds <code>.zip; holds a <code>.zip that is not a ZIP file
SrcStates == {"nodir", "empty", "other", "season", "badseason"}

PermsOf(S) ==
    {f \in [1..Cardinality(S) -> S] : \A i, j \in DOMAIN f : f[i] = f[j] => i = j}

\* _check_folder(src_dir, "zip", business_period.keys())
RawDelayCheck ==
    IF dl_src = "nodir" THEN "False"
    ELSE IF dl_src = "empty" THEN "False"
    ELSE IF dl_request # {} /\ dl_src = "other" THEN "missing"
    ELSE "True"

\* _handle_period_zip: the archive passes the season/period filter
Selected(p) == dl_import_all \/ dl_request = {} \/ p \in dl_request

\* _handle_period_zip on the archive of period p, from state st of the loop
HandlePeriodZip(st, p) ==
    IF ~Selected(p) THEN st
    ELSE CASE dl_inner[p] = "good" ->
                [st EXCEPT !.cache = @ \cup {p}, !.writes = @ \cup {p},
                           !.written = @ + 1]
           [] dl_inner[p] = "corrupt" ->
                [st EXCEPT !.logged = @ \cup {p}, !.written = @ + 1]
           [] dl_inner[p] = "nocsv" ->
                [st EXCEPT !.logged = @ \cup {p}, !.written = @ + 1]
           [] OTHER ->
                [st EXCEPT !.raised = "ValueError"]

\* for inner_zip in Path(tmp).rglob("*.zip"), in the order the walk gives
RECURSIVE InnerLoop(_, _, _)
InnerLoop(order, i, st) ==
    IF i > Len(order) \/ st.raised # NoValue THEN st
    ELSE InnerLoop(order, i + 1, HandlePeriodZip(st, order[i]))

InitDelay ==
    /\ dl_src \in SrcStates
    /\ dl_inner \in [Periods -> ArchiveKinds]
    /\ dl_cache0 \in SUBSET Periods /\ dl_cache = dl_cache0
    /\ dl_given \in BOOLEAN
    /\ dl_request \in SUBSET Periods /\ (~dl_given => dl_request = {})
    /\ dl_overwrite \in BOOLEAN /\ dl_import_all \in BOOLEAN
    /\ dl_writes = {} /\ dl_logged = {} /\ dl_total = 0
    /\ dl_op = "none" /\ dl_pc = "call"

\* get_delay_dataset(start_date, end_date): the call of
\* _build_business_period_map hands _YEAR_START over as a third positional
\* argument to a function that takes two
GetDelayDataset ==
    /\ dl_pc = "call" /\ dl_given /\ dl_request # {}
    /\ ~dl_overwrite /\ ~dl_import_all
    /\ dl_op' = "get" /\ dl_pc' = "TypeError"
    /\ UNCHANGED <<dl_src, dl_inner, dl_cache0, dl_cache, dl_given, dl_request,
                   dl_overwrite, dl_import_all, dl_writes, dl_logged, dl_total>>

\* extract_delay_dataset(business_period, overwrite, src_dir, out_dir, ...)
ExtractDelayDataset ==
    /\ dl_pc = "call" /\ ~dl_import_all
    /\ dl_op' = "extract"
    /\ dl_pc' =
         IF dl_src = "nodir" THEN "SystemExit"
         ELSE IF ~dl_given THEN "AttributeError"
         ELSE IF RawDelayCheck = "False" THEN "TypeError"
         ELSE IF RawDelayCheck = "missing" THEN "returned"
         ELSE IF dl_request = {} THEN "returned"
         ELSE "UnboundLocalError"
    /\ UNCHANGED <<dl_src, dl_inner, dl_cache0, dl_cache, dl_given, dl_request,
                   dl_overwrite, dl_import_all, dl_writes, dl_logged, dl_total>>

\* process_zipfile(src_dir / "<code>.zip", out_dir, fmt, overwrite=...,
\* business_periods=..., import_all=...)
ProcessZipfile ==
    /\ dl_pc = "call" /\ dl_src \in {"season", "badseason"}
    /\ dl_op' = "process"
    /\ IF dl_src = "badseason"
       THEN /\ dl_pc' = "returned" /\ dl_total' = 0
            /\ UNCHANGED <<dl_cache, dl_writes, dl_logged>>
       ELSE \E order \in PermsOf({p \in Periods : dl_inner[p] # "absent"}) :
              LET st == InnerLoop(order, 1,
                            [cache |-> dl_cache, writes |-> {}, logged |-> {},
                             written |-> 0, raised |-> NoValue])
              IN /\ dl_cache' = st.cache
                 /\ dl_writes' = st.writes
                 /\ dl_logged' = st.logged
                 /\ IF st.raised # NoValue
                    THEN dl_pc' = st.raised /\ dl_total' = 0
                    ELSE dl_pc' = "returned" /\ dl_total' = st.written
    /\ UNCHANGED <<dl_src, dl_inner, dl_cache0, dl_given, dl_request,
                   dl_overwrite, dl_import_all>>

NextDelay ==
    \/ GetDelayDataset /\ UNCHANGED <<hc_vars, cif_vars, bp_vars, gc_vars, tb_vars, wx_vars, inc_vars, mf_vars, tm_vars, sv_vars, cr_vars, ls_vars, wp_vars, oz_vars, co_vars, sw_vars, tc_vars, dp_vars, tg_vars>>
    \/ ExtractDelayDataset /\ UNCHANGED <<hc_vars, cif_vars, bp_vars, gc_vars, tb_vars, wx_vars, inc_vars, mf_vars, tm_vars, sv_vars, cr_vars, ls_vars, wp_vars, oz_vars, co_vars, sw_vars, tc_vars, dp_vars, tg_vars>>
    \/ ProcessZipfile /\ UNCHANGED <<hc_vars, cif_vars, bp_vars, gc_vars, tb_vars, wx_vars, inc_vars, mf_vars, tm_vars, sv_vars, cr_vars, ls_vars, wp_vars, oz_vars, co_vars, sw_vars, tc_vars, dp_vars, tg_vars>>

StartDelay == InitDelay /\ HcIdle /\ CifIdle /\ BpIdle /\ GcIdle /\ TbIdle /\ WxIdle /\ IncIdle /\ MfIdle /\ TmIdle /\ SvIdle /\ CrIdle /\ LsIdle /\ WpIdle /\ OzIdle /\ CoIdle /\ SwIdle /\ TcIdle /\ DpIdle /\ TgIdle

SpecDelay == StartDelay /\ [][NextDelay]_vars

(***************************************************************************)
(* Claims on the delay cache                                               *)
(***************************************************************************)
\* C8: get_delay_dataset returns, and what it has extraction process is
\* within the requested periods that had no cached file (nothing at all
\* when every requested period was cached).
C8_GetPrunesCachedPeriods ==
    dl_op = "get" =>
        /\ dl_pc = "returned"
        /\ dl_writes \subseteq (dl_request \ dl_cache0)

\* C9: with overwrite=False a call rewrites no period file that was cached
\* before it, and extract_delay_dataset with overwrite=True where the season
\* ZIP holds a good archive for every requested period reprocesses them all.
C9_OverwriteGovernsReprocessing ==
    /\ (dl_op \in {"extract", "process"} /\ ~dl_overwrite)
          => dl_writes \cap dl_cache0 = {}
    /\ (/\ dl_op = "extract" /\ dl_overwrite /\ dl_given /\ dl_src = "season"
        /\ \A p \in dl_request : dl_inner[p] = "good")
          => dl_pc = "returned" /\ dl_request \subseteq dl_writes

\* the archives of the batch that process_zipfile was asked to import
Matching == {p \in Periods : dl_inner[p] # "absent" /\ Selected(p)}
Faulty == {p \in Matching : dl_inner[p] # "good"}

\* C10: with a single faulty archive in the batch, process_zipfile returns
\* without raising, every other matching archive is cached, the faulty one
\* is logged, and the count returned leaves it out.
C10_FaultyArchiveSkipped ==
    (dl_op = "process" /\ dl_src = "season" /\ Cardinality(Faulty) = 1) =>
        /\ dl_pc = "returned"
        /\ (Matching \ Faulty) \subseteq dl_writes
        /\ Faulty \subseteq dl_logged
        /\ dl_total = Cardinality(Matching \ Faulty)

(***************************************************************************)
(* Cache files: io/utils.py, rail_io/utils.py                              *)
(***************************************************************************)
MaxFiles == 2       \* files in the cache directory before the call
MaxTableRows == 2   \* rows of a table handed to write_cache

\* ---- strings that differ by a leading dot: Path.suffix is ".csv", a key of
\* _INPUT_READERS is "csv"
Dotted(n) == [dot |-> TRUE, name |-> n]
Bare(n) == [dot |-> FALSE, name |-> n]
EmptyStr == Bare("")
LStripDot(x) == [x EXCEPT !.dot = FALSE]

\* ---- a path of the cache directory: the stem "cache" and these extensions
CachePaths ==
    {<<>>, <<"csv">>, <<"parquet">>, <<"json">>, <<"pkl">>,
     <<"csv", "gz">>, <<"json", "gz">>}

Suffixes(path) == [i \in 1..Len(path) |-> Dotted(path[i])]
Suffix(path) == IF path = <<>> THEN EmptyStr ELSE Dotted(path[Len(path)])
Stem(path) == IF path = <<>> THEN <<>> ELSE SubSeq(path, 1, Len(path) - 1)

InputReaders == {Bare("csv"), Bare("parquet"), Bare("json")}
OutputWriters == {Bare("csv"), Bare("parquet"), Bare("json")}
CompExts == {Dotted("gz")}

\* ---- tables: one column of cells, a cell an integer or a string
Int7 == [type |-> "int", text |-> "7"]
Str7 == [type |-> "str", text |-> "7"]
StrA == [type |-> "str", text |-> "a"]
Cells == {Int7, Str7, StrA}
DigitTexts == {"7"}
Tables == SeqsOf(Cells, 1, MaxTableRows)

AllNumeric(t) == \A i \in DOMAIN t : t[i].text \in DigitTexts
AsType(t, ty) == [i \in DOMAIN t |-> [type |-> ty, text |-> t[i].text]]

\* what a writer stores: CSV is text; Parquet and JSON keep integer / string
Encode(fmt, t) == IF fmt = "csv" THEN AsType(t, "text") ELSE t

\* what a reader returns: read_csv infers the column type from the text,
\* read_json converts a column of numeric strings to integers
Decode(fmt, t) ==
    CASE fmt = "csv" -> IF AllNumeric(t) THEN AsType(t, "int") ELSE AsType(t, "str")
      [] fmt = "json" -> IF AllNumeric(t) THEN AsType(t, "int") ELSE t
      [] OTHER -> t

\* compression="infer": pandas reads it off the last extension of the path
PandasInfer(path) ==
    IF path # <<>> /\ path[Len(path)] = "gz" THEN "gzip" ELSE "none"

NoFile == [fmt |-> "absent", comp |-> "none", table |-> <<>>]
FileOf(fmt, path, t) ==
    [fmt |-> fmt,
     comp |-> IF fmt \in {"csv", "json"} THEN PandasInfer(path) ELSE "none",
     table |-> Encode(fmt, t)]

\* ---- io/utils._get_fmt: "" stands for the unbound fmt of a path without
\* extension
GetFmt(path) ==
    IF Len(path) = 1 THEN [raised |-> NoValue, fmt |-> LStripDot(Suffixes(path)[1])]
    ELSE IF Len(path) > 1
    THEN [raised |-> NoValue, fmt |-> LStripDot(Suffixes(path)[Len(path) - 1])]
    ELSE [raised |-> "UnboundLocalError", fmt |-> EmptyStr]

\* ---- rail_io/utils._detect_format_and_compression
DetectFormatAndCompression(path) ==
    IF Suffixes(path) = <<>> THEN [raised |-> "ValueError", fmt |-> EmptyStr]
    ELSE IF Suffix(path) \in CompExts
    THEN IF Len(path) < 2 THEN [raised |-> "ValueError", fmt |-> EmptyStr]
         ELSE [raised |-> NoValue, fmt |-> LStripDot(Suffixes(path)[Len(path) - 1])]
    ELSE [raised |-> NoValue, fmt |-> LStripDot(Suffix(path))]

\* the format read_cache works out for the path
ReadFmt(module, path) ==
    IF module = "io" THEN GetFmt(path) ELSE DetectFormatAndCompression(path)

\* the format write_cache works out for the path
WriteFmt(module, path) ==
    IF module = "io" THEN GetFmt(path)
    ELSE [raised |-> NoValue, fmt |-> LStripDot(Suffix(path))]

\* ---- read_cache(cache_path): the exception raised, the table returned
ReadCacheOutcome(module, path, fs) ==
    LET d == ReadFmt(module, path)
        f == fs[path]
    IN  IF f = NoFile THEN [raised |-> "FileNotFoundError", table |-> <<>>]
        ELSE IF d.raised # NoValue THEN [raised |-> d.raised, table |-> <<>>]
        ELSE IF d.fmt = EmptyStr THEN [raised |-> "ValueError", table |-> <<>>]
        ELSE IF d.fmt \notin InputReaders THEN [raised |-> "ValueError", table |-> <<>>]
        ELSE IF f.fmt # d.fmt.name
                  \/ (d.fmt.name \in {"csv", "json"} /\ f.comp # PandasInfer(path))
        THEN [raised |-> "OSError", table |-> <<>>]
        ELSE [raised |-> NoValue, table |-> Decode(d.fmt.name, f.table)]

\* ---- write_cache(cache_path, df): the exception raised, the file written
WriteCacheOutcome(module, path, df) ==
    LET d == WriteFmt(module, path)
    IN  IF d.raised # NoValue THEN [raised |-> d.raised, file |-> NoFile]
        ELSE IF d.fmt = EmptyStr THEN [raised |-> "ValueError", file |-> NoFile]
        ELSE IF d.fmt \notin OutputWriters THEN [raised |-> "ValueError", file |-> NoFile]
        ELSE [raised |-> NoValue, file |-> FileOf(d.fmt.name, path, df)]

\* ---- get_cache: the sibling files offered as a hint
Candidates(path, fs) ==
    {p \in CachePaths :
        /\ fs[p] # NoFile
        /\ Stem(p) = Stem(path)
        /\ Suffix(p) # Suffix(path)
        /\ Suffix(p) \in InputReaders}

\* get_cache falls to the generator: input_path and input_path.exists() and
\* gen_func and isinstance(gen_func, Callable)
GeneratesWithoutInput(input, gen) == gen

Generates(input, gen) == input = "exists" /\ gen

\* a file as an earlier run of the pipeline left it
StoredTable == <<Int7>>
StoredFile(path) ==
    LET d == DetectFormatAndCompression(path)
    IN  IF d.raised # NoValue \/ d.fmt \notin OutputWriters
        THEN [fmt |-> "other", comp |-> "none", table |-> StoredTable]
        ELSE FileOf(d.fmt.name, path, StoredTable)

InitCache ==
    /\ gc_dir \in BOOLEAN
    /\ \E present \in SUBSET CachePaths :
          /\ Cardinality(present) <= MaxFiles
          /\ ~gc_dir => present = {}
          /\ gc_fs = [p \in CachePaths |->
                        IF p \in present THEN StoredFile(p) ELSE NoFile]
    /\ gc_module \in {"io", "rail_io"}
    /\ gc_path \in CachePaths
    /\ gc_input \in {"none", "missing", "exists"}
    /\ gc_gen \in BOOLEAN
    /\ gc_df \in Tables
    /\ gc_result = <<>> /\ gc_gen_calls = 0 /\ gc_hint = {}
    /\ gc_op = "none" /\ gc_pc = "call"

\* get_cache(cache_path, input_path, gen_func)
GetCache ==
    /\ gc_pc = "call"
    /\ gc_op' = "get"
    /\ IF ~gc_dir
       THEN gc_pc' = "ValueError" /\ UNCHANGED <<gc_result, gc_gen_calls, gc_hint>>
       ELSE IF gc_fs[gc_path] # NoFile
       THEN LET r == ReadCacheOutcome(gc_module, gc_path, gc_fs)
            IN  /\ gc_pc' = IF r.raised # NoValue THEN r.raised ELSE "returned"
                /\ gc_result' = r.table
                /\ UNCHANGED <<gc_gen_calls, gc_hint>>
       ELSE IF Generates(gc_input, gc_gen)
       THEN /\ gc_pc' = "returned" /\ gc_result' = gc_df
            /\ gc_gen_calls' = gc_gen_calls + 1
            /\ UNCHANGED gc_hint
       ELSE /\ gc_pc' = "FileNotFoundError"
            /\ gc_hint' = Candidates(gc_path, gc_fs)
            /\ UNCHANGED <<gc_result, gc_gen_calls>>
    /\ UNCHANGED <<gc_dir, gc_fs, gc_module, gc_path, gc_input, gc_gen, gc_df>>

\* write_cache(cache_path, df) with mdir=True
WriteCache ==
    /\ gc_pc = "call"
    /\ gc_op' = "write"
    /\ gc_dir' = TRUE
    /\ LET w == WriteCacheOutcome(gc_module, gc_path, gc_df)
       IN  IF w.raised # NoValue
           THEN gc_pc' = w.raised /\ UNCHANGED gc_fs
           ELSE gc_pc' = "written" /\ gc_fs' = [gc_fs EXCEPT ![gc_path] = w.file]
    /\ UNCHANGED <<gc_module, gc_path, gc_input, gc_gen, gc_df, gc_result,
                   gc_gen_calls, gc_hint>>

\* read_cache(cache_path) on the path just written
ReadCache ==
    /\ gc_pc = "written"
    /\ gc_op' = "read"
    /\ LET r == ReadCacheOutcome(gc_module, gc_path, gc_fs)
       IN  /\ gc_pc' = IF r.raised # NoValue THEN r.raised ELSE "returned"
           /\ gc_result' = r.table
    /\ UNCHANGED <<gc_dir, gc_fs, gc_module, gc_path, gc_input, gc_gen, gc_df,
                   gc_gen_calls, gc_hint>>

NextCache ==
    \/ GetCache /\ UNCHANGED <<hc_vars, cif_vars, bp_vars, dl_vars, tb_vars, wx_vars, inc_vars, mf_vars, tm_vars, sv_vars, cr_vars, ls_vars, wp_vars, oz_vars, co_vars, sw_vars, tc_vars, dp_vars, tg_vars>>
    \/ WriteCache /\ UNCHANGED <<hc_vars, cif_vars, bp_vars, dl_vars, tb_vars, wx_vars, inc_vars, mf_vars, tm_vars, sv_vars, cr_vars, ls_vars, wp_vars, oz_vars, co_vars, sw_vars, tc_vars, dp_vars, tg_vars>>
    \/ ReadCache /\ UNCHANGED <<hc_vars, cif_vars, bp_vars, dl_vars, tb_vars, wx_vars, inc_vars, mf_vars, tm_vars, sv_vars, cr_vars, ls_vars, wp_vars, oz_vars, co_vars, sw_vars, tc_vars, dp_vars, tg_vars>>

StartCache == InitCache /\ HcIdle /\ CifIdle /\ BpIdle /\ DlIdle /\ TbIdle /\ WxIdle /\ IncIdle /\ MfIdle /\ TmIdle /\ SvIdle /\ CrIdle /\ LsIdle /\ WpIdle /\ OzIdle /\ CoIdle /\ SwIdle /\ TcIdle /\ DpIdle /\ TgIdle

SpecCache == StartCache /\ [][NextCache]_vars

(***************************************************************************)
(* Claims on the cache files                                               *)
(***************************************************************************)
\* the extensions under which a stored table can be read back
ReadableExts ==
    {<<"csv">>, <<"parquet">>, <<"json">>, <<"csv", "gz">>, <<"json", "gz">>}

\* C11 (as stated): whatever the directory holds, get_cache returns the
\* cached table without calling the generator when the cache file is present,
\* else calls the generator once and returns its table when the input exists
\* and a generator is given, else fails with FileNotFoundError.
C11_GetCacheThreeWay ==
    gc_op = "get" =>
        IF gc_fs[gc_path] # NoFile
        THEN gc_pc = "returned" /\ gc_result = StoredTable /\ gc_gen_calls = 0
        ELSE IF gc_input = "exists" /\ gc_gen
        THEN gc_pc = "returned" /\ gc_result = gc_df /\ gc_gen_calls = 1
        ELSE gc_pc = "FileNotFoundError" /\ gc_gen_calls = 0

\* C11 (amended): get_cache fails with ValueError when the parent of the
\* cache path is not a directory; otherwise a present cache file is handed
\* to read_cache (the stored table is returned when its extension is one
\* read_cache reads, an error of read_cache otherwise) and the generator is
\* not called; otherwise the generator is called once when the input exists
\* and a generator is given; otherwise FileNotFoundError.
C11_GetCacheInDirectory ==
    gc_op = "get" =>
        IF ~gc_dir
        THEN gc_pc = "ValueError" /\ gc_gen_calls = 0
        ELSE IF gc_fs[gc_path] # NoFile
        THEN /\ gc_gen_calls = 0
             /\ gc_pc # "FileNotFoundError"
             /\ gc_path \in ReadableExts
                   => gc_pc = "returned" /\ gc_result = StoredTable
             /\ gc_path \notin ReadableExts => gc_pc # "returned"
        ELSE IF gc_input = "exists" /\ gc_gen
        THEN gc_pc = "returned" /\ gc_result = gc_df /\ gc_gen_calls = 1
        ELSE gc_pc = "FileNotFoundError" /\ gc_gen_calls = 0

C11_Witness ==
    /\ gc_op = "get" /\ gc_dir /\ gc_fs[gc_path] = NoFile
    /\ gc_input = "exists" /\ gc_gen
    /\ gc_pc = "returned" /\ gc_gen_calls = 1 /\ gc_result = gc_df

\* the paths for which read_cache works out a supported format
ReaderAccepts(module, path) ==
    IF module = "io"
    THEN Len(path) >= 1
         /\ path[IF Len(path) = 1 THEN 1 ELSE Len(path) - 1] \in {"csv", "parquet", "json"}
    ELSE \/ Len(path) >= 1 /\ path[Len(path)] \in {"csv", "parquet", "json"}
         \/ /\ Len(path) >= 2 /\ path[Len(path)] = "gz"
            /\ path[Len(path) - 1] \in {"csv", "parquet", "json"}

\* C12: on a path the reader accepts, write_cache succeeds and read_cache
\* then returns the table that was written.
C12_WriteReadRoundTrip ==
    (gc_op \in {"write", "read"} /\ gc_pc # "written"
        /\ ReaderAccepts(gc_module, gc_path)) =>
        gc_op = "read" /\ gc_pc = "returned" /\ gc_result = gc_df

\* the files of the directory with the stem of the cache path and another,
\* supported, extension
SiblingFormats ==
    {p \in CachePaths :
        /\ gc_fs[p] # NoFile /\ p # <<>> /\ gc_path # <<>>
        /\ SubSeq(p, 1, Len(p) - 1) = SubSeq(gc_path, 1, Len(gc_path) - 1)
        /\ p[Len(p)] # gc_path[Len(gc_path)]
        /\ p[Len(p)] \in {"csv", "parquet", "json"}}

\* C13: when get_cache fails with FileNotFoundError, the message names every
\* sibling file of the same stem and another supported extension.
C13_HintNamesSiblings ==
    (gc_op = "get" /\ gc_pc = "FileNotFoundError") =>
        SiblingFormats \subseteq gc_hint

(***************************************************************************)
(* Main timebase: features/generate_database.py                            *)
(***************************************************************************)
MaxTsHour == 26   \* timestamps are the whole hours 0..MaxTsHour
MaxRuns == 2      \* runs of stream_main_database on the directory

\* hour 0 is Saturday 22:00; weekdays as pandas numbers them (Monday = 0)
EpochHourOfDay == 22
EpochWeekday == 5
WeekAnchor == 6

TsHours == 0..MaxTsHour
TsDay(t) == (t + EpochHourOfDay) \div HoursPerDay
TsWeekday(t) == (EpochWeekday + TsDay(t)) % DaysPerWeek

\* win_start + to_offset("W"): the same time of day on the next Sunday
PlusOffset(t) ==
    IF TsWeekday(t) = WeekAnchor
    THEN t + DaysPerWeek * HoursPerDay
    ELSE t + ((WeekAnchor - TsWeekday(t)) % DaysPerWeek) * HoursPerDay

\* generate_series(p_start, p_end, INTERVAL '1 hour') for the window that
\* starts at win_start: win_end is one second short of the next window
WindowHours(win_start, end) ==
    {h \in TsHours : win_start <= h /\ h < PlusOffset(win_start) /\ h <= end}

\* COPY ... (PARTITION_BY ..., APPEND): the rows of the query are added to
\* the files already there
CopyAppend(rows, locs, hours) ==
    [k \in DOMAIN rows |->
        IF k[1] \in locs /\ k[2] \in hours THEN rows[k] + 1 ELSE rows[k]]

\* the while loop of stream_main_database from win_start on
RECURSIVE StreamFrom(_, _, _)
StreamFrom(st, win_start, end) ==
    IF win_start > end THEN st
    ELSE StreamFrom([rows |-> CopyAppend(st.rows, Locs, WindowHours(win_start, end)),
                     windows |-> st.windows + 1],
                    PlusOffset(win_start), end)

InitTimebase ==
    /\ tb_rows = [k \in Locs \X TsHours |-> 0]
    /\ tb_spans = {} /\ tb_windows = 0 /\ tb_runs = 0

\* stream_main_database(ELR_MILs, start_date, end_date, output_dir)
StreamMainDatabase ==
    /\ tb_runs < MaxRuns
    /\ \E start \in TsHours, end \in TsHours :
          LET st == StreamFrom([rows |-> tb_rows, windows |-> 0], start, end)
          IN  /\ tb_rows' = st.rows
              /\ tb_windows' = st.windows
              /\ tb_spans' = tb_spans \cup {h \in TsHours : start <= h /\ h <= end}
    /\ tb_runs' = tb_runs + 1

NextTimebase ==
    StreamMainDatabase /\ UNCHANGED <<hc_vars, cif_vars, bp_vars, dl_vars, gc_vars, wx_vars, inc_vars, mf_vars, tm_vars, sv_vars, cr_vars, ls_vars, wp_vars, oz_vars, co_vars, sw_vars, tc_vars, dp_vars, tg_vars>>

StartTimebase == InitTimebase /\ HcIdle /\ CifIdle /\ BpIdle /\ DlIdle /\ GcIdle /\ WxIdle /\ IncIdle /\ MfIdle /\ TmIdle /\ SvIdle /\ CrIdle /\ LsIdle /\ WpIdle /\ OzIdle /\ CoIdle /\ SwIdle /\ TcIdle /\ DpIdle /\ TgIdle

SpecTimebase == StartTimebase /\ [][NextTimebase]_vars

(***************************************************************************)
(* Claims on the main timebase                                             *)
(***************************************************************************)
\* C14: after any runs the dataset holds exactly one row per (ELR_MIL, hour)
\* of the union of the requested spans and none outside it.
C14_OneRowPerLocHour ==
    \A k \in Locs \X TsHours :
        tb_rows[k] = IF k[2] \in tb_spans THEN 1 ELSE 0

(***************************************************************************)
(* Weather features: features/sql_weather.py                               *)
(***************************************************************************)
MaxWxHour == 25       \* requested hours lie in 0..MaxWxHour (TsDay, TsWeekday)
MaxWindowHours == 2   \* window_hours of the rolling feature is 1..MaxWindowHours
MaxBuilds == 2        \* runs of build_weather_features
MaxGuid == 2          \* file-name prefixes write_to_dataset may draw

WxHours == (0 - MaxWindowHours)..MaxWxHour
Null == 0 - 1

\* the value the station tables hold for an hour
Temp(h) == ((h + MaxWindowHours) * 3) % 7

\* a file of a partition: name (a "features_" prefix or a drawn prefix and a
\* counter), columns (raw or feature) and rows <<hour, value>>
ParquetFile(prefixed, guid, kind, rows) ==
    [prefixed |-> prefixed, guid |-> guid, kind |-> kind, rows |-> rows]

GuidBefore(a, b) == a[1] < b[1] \/ (a[1] = b[1] /\ a[2] <= b[2])

\* write_to_parquet(df, out_root): one new file in each day partition that
\* has rows, next to what is there
WriteToParquet(dir, guid, kind, rows) ==
    dir \cup
    {[day |-> d, file |-> ParquetFile(FALSE, guid, kind, {r \in rows : TsDay(r[1]) = d})] :
        d \in {TsDay(r[1]) : r \in rows}}

\* build_raw_weather_feature_frame(start_date, end_date, parquet_dir)
BuildRawWeatherFeatureFrame(dir, guid, start, end) ==
    WriteToParquet(dir, guid, "raw",
                   {<<h, Temp(h)>> : h \in {x \in WxHours : start <= x /\ x <= end}})

\* _mk_parquet_expr(base): per day partition the first file by name among
\* those not named features_*, or among all of them if there is none
RawCandidates(dir, d) == {e.file : e \in {x \in dir : x.day = d /\ ~x.file.prefixed}}
AnyCandidates(dir, d) == {e.file : e \in {x \in dir : x.day = d}}
FirstByName(files) == CHOOSE f \in files : \A g \in files : GuidBefore(f.guid, g.guid)
MkParquetExpr(dir) ==
    {FirstByName(IF RawCandidates(dir, d) # {} THEN RawCandidates(dir, d)
                 ELSE AnyCandidates(dir, d)) : d \in {e.day : e \in dir}}

\* parquet_scan(files, UNION_BY_NAME=1): a file without the raw column gives
\* NULL for it
ScanRows(files) ==
    UNION {IF f.kind = "raw" THEN f.rows ELSE {<<r[1], Null>> : r \in f.rows} :
            f \in files}

\* the raw column exists in the scanned table
HasRawColumn(files) == \E f \in files : f.kind = "raw"

\* the table weather: WHERE ts BETWEEN part_start AND win_end
WeatherTable(files, part_start, win_end) ==
    {r \in ScanRows(files) : part_start <= r[1] /\ r[1] <= win_end}

\* MAX(col) OVER (ORDER BY ts RANGE BETWEEN hrs hours PRECEDING AND CURRENT ROW)
RollingMax(table, hrs, h) ==
    LET vs == {r[2] : r \in {x \in table : h - hrs <= x[1] /\ x[1] <= h /\ x[2] # Null}}
    IN  IF vs = {} THEN Null ELSE SetMax(vs)

\* transform(lambda x: x.bfill())
Bfill(table, hrs, h) ==
    IF RollingMax(table, hrs, h) # Null THEN RollingMax(table, hrs, h)
    ELSE LET later == {r[1] : r \in {x \in table : x[1] > h /\ RollingMax(table, hrs, x[1]) # Null}}
         IN  IF later = {} THEN Null ELSE RollingMax(table, hrs, SetMin(later))

\* df_feat[df_feat["ts"].between(win_start, win_end)]
WindowFeatures(table, hrs, win_start, win_end) ==
    {<<r[1], Bfill(table, hrs, r[1])>> :
        r \in {x \in table : win_start <= x[1] /\ x[1] <= win_end}}

\* _drop_old_raw_partitions(base, keep_after): the directories it visits are
\* those named by the pattern day=, and the name of a partition is day=<n>
DayDigits(d) == IF d < 10 THEN <<d>> ELSE <<d \div 10, d % 10>>
GlobDayDirs(dir) == {d \in {e.day : e \in dir} : DayDigits(d) = <<>>}
DropOldRawPartitions(dir, keep_after) ==
    {e \in dir : ~(e.day \in GlobDayDirs(dir) /\ e.day < TsDay(keep_after))}

\* pd.Timedelta(hours=1) in seconds; win_end lies one second before the
\* next window
SecondsPerHour == 3600
\* the whole hours of [a, b], a and b in seconds
WholeHours(a, b) ==
    ((a + SecondsPerHour - 1) \div SecondsPerHour)..(b \div SecondsPerHour)

\* the while loop of build_weather_features from win_start on
RECURSIVE WeatherLoop(_, _, _, _, _)
WeatherLoop(st, win_start, end, hrs, g) ==
    IF win_start > end \/ st.raised # NoValue THEN st
    ELSE
      LET part_start == win_start - hrs
          next_start == PlusOffset(win_start)
          win_end_s == IF next_start * SecondsPerHour - 1 < end * SecondsPerHour
                       THEN next_start * SecondsPerHour - 1
                       ELSE end * SecondsPerHour
          win_end == win_end_s \div SecondsPerHour
          build_start_s == IF part_start * SecondsPerHour > st.last_raw_end + SecondsPerHour
                           THEN part_start * SecondsPerHour
                           ELSE st.last_raw_end + SecondsPerHour
          build_start == (build_start_s + SecondsPerHour - 1) \div SecondsPerHour
          builds == build_start_s <= win_end_s
          raw1 == IF builds
                  THEN BuildRawWeatherFeatureFrame(st.raw, <<g, 2 * st.i>>, build_start, win_end)
                  ELSE st.raw
          feat1 == IF st.temp THEN st.feat ELSE raw1
          expr == IF builds THEN MkParquetExpr(raw1) ELSE st.expr
          table == WeatherTable(expr, part_start, win_end)
          rows == WindowFeatures(table, hrs, win_start, win_end)
          feat2 == WriteToParquet(feat1, <<g, 2 * st.i + 1>>, "feat", rows)
          raw2 == IF st.temp THEN DropOldRawPartitions(raw1, next_start - hrs)
                  ELSE feat2
          trace1 == IF builds
                    THEN Append(st.trace, [ev |-> "build",
                                           hours |-> WholeHours(build_start_s, win_end_s)])
                    ELSE st.trace
      IN  IF ~HasRawColumn(expr)
          THEN [st EXCEPT !.raised = "BinderException", !.raw = raw1, !.feat = feat1,
                          !.trace = trace1]
          ELSE WeatherLoop(
                 [st EXCEPT !.raw = raw2, !.feat = feat2, !.expr = expr,
                            !.last_raw_end = IF builds THEN win_end_s ELSE @,
                            !.out = @ \cup rows,
                            !.log = IF st.temp
                                    THEN Append(@, [win_start |-> win_start,
                                                    days |-> {e.day : e \in raw2}])
                                    ELSE @,
                            !.trace = Append(trace1, [ev |-> "aggregate",
                                                      hours |-> win_start..win_end]),
                            !.i = @ + 1],
                 next_start, end, hrs, g)

\* build_weather_features(parquet_dir, start_date, end_date) with
\* build_raw=True, up to the while loop
WeatherRun(feat, start, end, hrs, g) ==
    LET temp == feat = {}
        raw0 == IF temp
                THEN BuildRawWeatherFeatureFrame({}, <<g, 0>>, start - hrs, end)
                ELSE feat
        expr0 == MkParquetExpr(raw0)
        last0 == IF temp THEN end * SecondsPerHour
                 ELSE SetMax({r[1] : r \in ScanRows(MkParquetExpr(feat))}) * SecondsPerHour
        trace0 == IF temp
                  THEN <<[ev |-> "present", hours |-> {}],
                         [ev |-> "build", hours |-> (start - hrs)..end]>>
                  ELSE <<[ev |-> "present",
                          hours |-> {r[1] : r \in ScanRows(MkParquetExpr(feat))}]>>
    IN  WeatherLoop([feat |-> feat, raw |-> raw0, temp |-> temp, expr |-> expr0,
                     last_raw_end |-> last0, out |-> {}, log |-> <<>>,
                     trace |-> trace0, raised |-> NoValue, i |-> 1],
                    start, end, hrs, g)

\* raw files someone prepared in the feature directory, named features_0:
\* the last day, or the first
PreparedEarly ==
    {[day |-> TsDay(0),
      file |-> ParquetFile(TRUE, <<0, 0>>, "raw",
                  {<<h, Temp(h)>> : h \in {x \in WxHours : TsDay(x) = TsDay(0)}})]}
PreparedRaw ==
    {[day |-> TsDay(MaxWxHour),
      file |-> ParquetFile(TRUE, <<0, 0>>, "raw",
                  {<<h, Temp(h)>> : h \in {x \in WxHours : TsDay(x) = TsDay(MaxWxHour)}})]}

InitWeather ==
    /\ wx_feat \in {{}, PreparedRaw, PreparedEarly}
    /\ wx_hrs \in 1..MaxWindowHours
    /\ wx_range \in {r \in (0..MaxWxHour) \X (0..MaxWxHour) : r[1] <= r[2]}
    /\ wx_out = {} /\ wx_first = {} /\ wx_temp_log = <<>> /\ wx_guids = {}
    /\ wx_runs = 0 /\ wx_trace = <<>> /\ wx_pc = "ready"

BuildWeatherFeatures ==
    /\ wx_runs < MaxBuilds /\ wx_pc \in {"ready", "returned"}
    /\ \E g \in (1..MaxGuid) \ wx_guids :
          LET st == WeatherRun(wx_feat, wx_range[1], wx_range[2], wx_hrs, g)
          IN  /\ wx_feat' = st.feat
              /\ wx_out' = st.out
              /\ wx_first' = IF wx_runs = 0 THEN st.out ELSE wx_first
              /\ wx_temp_log' = st.log
              /\ wx_trace' = st.trace
              /\ wx_pc' = IF st.raised # NoValue THEN st.raised ELSE "returned"
              /\ wx_guids' = wx_guids \cup {g}
    /\ wx_runs' = wx_runs + 1
    /\ UNCHANGED <<wx_hrs, wx_range>>

NextWeather ==
    BuildWeatherFeatures
        /\ UNCHANGED <<hc_vars, cif_vars, bp_vars, dl_vars, gc_vars, tb_vars, inc_vars, mf_vars, tm_vars, sv_vars, cr_vars, ls_vars, wp_vars, oz_vars, co_vars, sw_vars, tc_vars, dp_vars, tg_vars>>

StartWeather ==
    InitWeather /\ HcIdle /\ CifIdle /\ BpIdle /\ DlIdle /\ GcIdle /\ TbIdle
        /\ IncIdle /\ MfIdle /\ TmIdle /\ SvIdle /\ CrIdle /\ LsIdle /\ WpIdle /\ OzIdle /\ CoIdle /\ SwIdle /\ TcIdle /\ DpIdle /\ TgIdle

SpecWeather == StartWeather /\ [][NextWeather]_vars

(***************************************************************************)
(* Claims on the weather features                                          *)
(***************************************************************************)
\* C15: a second build over the range the first build covered returns and
\* writes the same rolling value for every hour as the first.
C15_RebuildReproduces ==
    wx_runs = 2 => wx_pc = "returned" /\ wx_out = wx_first

\* C16: after each window of a run that used a temporary raw area, the area
\* holds no partition dated before that window's start minus the buffer.
C16_OldRawPartitionsPruned ==
    \A i \in DOMAIN wx_temp_log :
        \A d \in wx_temp_log[i].days :
            d >= TsDay(wx_temp_log[i].win_start - wx_hrs)

(***************************************************************************)
(* Incident dataset: features/extract_incidents.py                         *)
(***************************************************************************)
MaxIncRows == 2          \* delay records over all files of the directory

\* Text is a sequence of code points.  An empty CSV field reads as NaN.
NoText == <<>>

\* reason codes carried by the files: "FK", "WF", "F1"
IncCodes == {<<70, 75>>, <<87, 70>>, <<70, 49>>}

\* prefix = "INCIDENT_"
Prefix == <<73, 78, 67, 73, 68, 69, 78, 84, 95>>

\* Python's order on str: by code point, a proper prefix first
RECURSIVE LexLess(_, _)
LexLess(a, b) ==
    IF a = <<>> THEN b # <<>>
    ELSE IF b = <<>> THEN FALSE
    ELSE IF a[1] # b[1] THEN a[1] < b[1]
    ELSE LexLess(Tail(a), Tail(b))

RECURSIVE SortedReversed(_)
SortedReversed(codes) ==
    IF codes = {} THEN <<>>
    ELSE LET m == CHOOSE x \in codes : \A y \in codes : x = y \/ LexLess(y, x)
         IN  <<m>> \o SortedReversed(codes \ {m})

\* sorted(codes)
RECURSIVE Sorted(_)
Sorted(codes) ==
    IF codes = {} THEN <<>>
    ELSE LET m == CHOOSE x \in codes : \A y \in codes : x = y \/ LexLess(x, y)
         IN  <<m>> \o Sorted(codes \ {m})

\* sorted_codes = [f"{prefix}{c}" for c in sorted(set(map(str, codes)))];
\* the codes are str already, which str() returns unchanged
SortedCodes(codes) ==
    LET srt == Sorted(codes) IN [i \in 1..Len(srt) |-> Prefix \o srt[i]]

\* SECTION_CODE "<stanox>:<stanox>" as the pair of its two numbers
SectionCodes == {<<1, 9>>, <<2, 9>>}

\* the geospatial mapping STANOX -> ELR_MIL ("A"); STANOX 2 is not in it
GeoMapping == [s \in {1} |-> <<65>>]

\* location_to_ELR_MIL(SECTION_CODE.str.split(':', n=1).str[0].astype(int))
LocationToElrMil(section) ==
    IF section[1] \in DOMAIN GeoMapping THEN GeoMapping[section[1]] ELSE NoText

\* EVENT_DATETIME values, by calendar hour: one in period 1, one in period 2
IncTimes == {Midnight(Ordinal(2024, 4, 2)), Midnight(Ordinal(2024, 4, 30)) + 1}

\* the delay_<code>_P<nn>.<fmt> files the directory may hold
IncFileNames == PeriodPairs(SetMin(IncTimes), SetMax(IncTimes))

DelayRows ==
    [INCIDENT_REASON : IncCodes \cup {NoText}, EVENT_DATETIME : IncTimes,
     SECTION_CODE : SectionCodes]

\* one file: absent, present but failing read_cache, or a table
FileStates(budget) ==
    {[status |-> st, rows |-> <<>>] : st \in {"absent", "unreadable"}}
        \cup {[status |-> "ok", rows |-> r] : r \in SeqsOf(DelayRows, 0, budget)}

RECURSIVE Directories(_, _)
Directories(names, budget) ==
    IF names = {} THEN {<<>>}
    ELSE LET p == CHOOSE x \in names : TRUE IN
         UNION {{(p :> f) @@ rest :
                    rest \in Directories(names \ {p}, budget - Len(f.rows))} :
                f \in FileStates(budget)}

\* _delay_files: the files whose stem is a period of the window, all of the
\* delay files without a window
\* the windows a call may give, and for each
\* periods = set(_build_business_period_map(start_date, end_date))
IncWindows == [start : IncTimes, end : IncTimes]
WindowPeriods ==
    {<<w, PeriodPairs(w.start, w.end)>> : w \in {v \in IncWindows : v.start <= v.end}}

DelayFiles(files, window) ==
    LET periods == IF window = NoRec THEN DOMAIN files 
                   ELSE (CHOOSE wp \in WindowPeriods : wp[1] = window)[2]
    IN  {p \in DOMAIN files : files[p].status # "absent" /\ p \in periods}

\* _discover_incident_codes: a file that fails to read is skipped
DiscoverIncidentCodes(files, names) ==
    UNION {{files[p].rows[i].INCIDENT_REASON : i \in DOMAIN files[p].rows} \ {NoText} :
           p \in {q \in names : files[q].status = "ok"}}

\* df[df["EVENT_DATETIME"].between(start_date, end_date)] and the ELR_MIL
\* column, as the set of distinct (reason, time, ELR_MIL) records
FileRecords(rows, window) ==
    {[reason |-> rows[i].INCIDENT_REASON, time |-> rows[i].EVENT_DATETIME,
      elr |-> LocationToElrMil(rows[i].SECTION_CODE)] :
        i \in {j \in DOMAIN rows :
                 window # NoRec =>
                    /\ window.start <= rows[j].EVENT_DATETIME
                    /\ rows[j].EVENT_DATETIME <= window.end}}

\* sort_values(["INCIDENT_REASON", "EVENT_DATETIME", "ELR_MIL"]) among the
\* records of one reason: earlier first, NaN last
RowBefore(a, b) ==
    \/ a.time < b.time
    \/ a.time = b.time /\ a.elr # NoText /\ (b.elr = NoText \/ LexLess(a.elr, b.elr))

\* .drop_duplicates(subset="INCIDENT_REASON", keep="first")
DropDuplicates(recs) ==
    {r \in recs : \A q \in recs : (q.reason = r.reason /\ q # r) => RowBefore(r, q)}

\* groupby(cols).size().unstack(fill_value=0).rename(...).sort_index()
\* .reindex(columns=sorted_codes, fill_value=0); groupby drops NaN keys
IncidentCounts(rows, window, sorted_codes) ==
    LET kept == {r \in DropDuplicates(FileRecords(rows, window)) :
                    r.reason # NoText /\ r.elr # NoText}
        unstacked == {Prefix \o r.reason : r \in kept}
        size(k, col) ==
            Cardinality({r \in kept : <<r.elr, r.time>> = k /\ Prefix \o r.reason = col})
        cols == {sorted_codes[i] : i \in DOMAIN sorted_codes}
    IN  [columns |-> sorted_codes,
         rows |-> {[ELR_MIL |-> k[1], hour |-> k[2],
                    counts |-> [c \in cols |->
                                  IF c \in unstacked THEN size(k, c) ELSE 0]] :
                   k \in {<<r.elr, r.time>> : r \in kept}}]

InitIncidents ==
    /\ inc_files \in Directories(IncFileNames, MaxIncRows)
    /\ inc_window \in {NoRec} \cup IncWindows
    /\ inc_expected \in {[given |-> FALSE, codes |-> {}],
                         [given |-> TRUE, codes |-> {<<70, 75>>}]}
    /\ inc_scan \in BOOLEAN
    /\ inc_out = <<>>
    /\ inc_pc = "ready"

\* extract_incident_dataset
ExtractIncidentDataset ==
    /\ inc_pc = "ready"
    /\ IF inc_window # NoRec /\ inc_window.start > inc_window.end
       THEN inc_pc' = "ValueError" /\ UNCHANGED inc_out
       ELSE
         LET files == DelayFiles(inc_files, inc_window)
             codes == IF inc_expected.given THEN inc_expected.codes
                      ELSE DiscoverIncidentCodes(inc_files, files)
             written == {p \in files : inc_files[p].status = "ok"
                                        /\ inc_files[p].rows # <<>>}
         IN  IF files = {}
             THEN inc_pc' = "returned" /\ UNCHANGED inc_out
             ELSE IF ~inc_expected.given /\ ~inc_scan
             THEN inc_pc' = "ValueError" /\ UNCHANGED inc_out
             ELSE IF codes = {}
             THEN inc_pc' = "RuntimeError" /\ UNCHANGED inc_out
             ELSE /\ inc_out' = [p \in written |->
                                   IncidentCounts(inc_files[p].rows, inc_window,
                                                  SortedCodes(codes))]
                  /\ inc_pc' = "returned"
    /\ UNCHANGED <<inc_files, inc_window, inc_expected, inc_scan>>

NextIncidents ==
    ExtractIncidentDataset
        /\ UNCHANGED <<hc_vars, cif_vars, bp_vars, dl_vars, gc_vars, tb_vars, wx_vars, mf_vars, tm_vars, sv_vars, cr_vars, ls_vars, wp_vars, oz_vars, co_vars, sw_vars, tc_vars, dp_vars, tg_vars>>

StartIncidents ==
    InitIncidents /\ HcIdle /\ CifIdle /\ BpIdle /\ DlIdle /\ GcIdle /\ TbIdle
        /\ WxIdle /\ MfIdle /\ TmIdle /\ SvIdle /\ CrIdle /\ LsIdle /\ WpIdle /\ OzIdle /\ CoIdle /\ SwIdle /\ TcIdle /\ DpIdle /\ TgIdle

SpecIncidents == StartIncidents /\ [][NextIncidents]_vars

\* C17: with the codes discovered by scanning, every frame written has
\* exactly the columns INCIDENT_<c> for the codes c of the delay files, in
\* lexicographic order, and a row holds 0 in every incident column for which
\* its file has no record of that ELR_MIL, hour and reason.
C17_SortedZeroFilledColumns ==
    (inc_pc = "returned" /\ ~inc_expected.given) =>
        LET names == DelayFiles(inc_files, inc_window)
            C == UNION {{inc_files[q].rows[i].INCIDENT_REASON :
                            i \in DOMAIN inc_files[q].rows} \ {NoText} : q \in names}
        IN  \A p \in DOMAIN inc_out :
            LET cols == inc_out[p].columns
                recs == inc_files[p].rows
            IN  /\ {cols[i] : i \in DOMAIN cols} = {Prefix \o c : c \in C}
                /\ \A i, j \in DOMAIN cols : i < j => LexLess(cols[i], cols[j])
                /\ \A row \in inc_out[p].rows : \A c \in C :
                      (~\E i \in DOMAIN recs :
                            /\ recs[i].INCIDENT_REASON = c
                            /\ recs[i].EVENT_DATETIME = row.hour
                            /\ LocationToElrMil(recs[i].SECTION_CODE) = row.ELR_MIL)
                        => row.counts[Prefix \o c] = 0

C17_Witness ==
    /\ inc_pc = "returned" /\ ~inc_expected.given
    /\ \E p \in DOMAIN inc_out :
          /\ Len(inc_out[p].columns) >= 2
          /\ \E row \in inc_out[p].rows :
                /\ \E c \in DOMAIN row.counts : row.counts[c] = 0
                /\ \E c \in DOMAIN row.counts : row.counts[c] > 0

(***************************************************************************)
(* Modelling frame: models/construct_frame.py                              *)
(***************************************************************************)
MaxFrameRows == 2        \* rows of the main timebase on disk
MaxFilterKeys == 1       \* components named by a time_filter
MaxPartValue == 2        \* each of year, month, day, hour ranges over 1..2

\* _PARTITION_KEYS[1:], _JOIN_KEYS without ELR_MIL (one ELR_MIL is on disk
\* and is the one asked for)
PartitionKeys == {"year", "month", "day"}
JoinKeys == {"year", "month", "day", "hour"}

PartValues == 1..MaxPartValue
FrameKeys == [JoinKeys -> PartValues]

\* the values a time_filter gives a component: one int, or a list of ints
FilterValues ==
    {[list |-> FALSE, vals |-> {v}] : v \in PartValues}
        \cup {[list |-> TRUE, vals |-> S] : S \in (SUBSET PartValues) \ {{}}}

TimeFilters ==
    UNION {[D -> FilterValues] :
             D \in {E \in SUBSET JoinKeys : Cardinality(E) <= MaxFilterKeys}}

\* _build_glob: per partition key "key=<v>", "key={a,b}" (_brace) or "key=*"
BuildGlob(time_filter) ==
    [key \in PartitionKeys |->
        IF key \in DOMAIN time_filter
        THEN [kind |-> IF time_filter[key].list THEN "brace" ELSE "literal",
              vals |-> time_filter[key].vals]
        ELSE [kind |-> "any", vals |-> {}]]

\* one path component of a glob against the directory "key=<v>"
PartMatches(part, v, brace) ==
    CASE part.kind = "any" -> TRUE
      [] part.kind = "literal" -> v \in part.vals
      [] part.kind = "brace" -> brace /\ v \in part.vals

GlobMatches(pattern, row, brace) ==
    \A key \in PartitionKeys : PartMatches(pattern[key], row[key], brace)

\* _has_parquet_files: every {...} replaced by * before glob.glob
HasParquetFiles(pattern, rows) ==
    LET safe_pattern == [key \in PartitionKeys |->
                            IF pattern[key].kind = "brace"
                            THEN [kind |-> "any", vals |-> {}] ELSE pattern[key]]
    IN  \E r \in rows : GlobMatches(safe_pattern, r, FALSE)

\* parquet_scan(glob, hive_partitioning=true): the rows of the files matched
ParquetScan(pattern, rows, brace) ==
    {r \in rows : GlobMatches(pattern, r, brace)}

\* main LEFT JOIN weather, timetable[, incidents] USING the join keys, then
\* fillna(0): a joined table's column is 1 where it has the row, else 0
JoinedFrame(m, w, t, i) ==
    {[key |-> r, weather |-> IF r \in w THEN 1 ELSE 0,
      timetable |-> IF r \in t THEN 1 ELSE 0,
      incidents |-> IF r \in i THEN 1 ELSE 0] : r \in m}

InitFrame ==
    /\ mf_tables \in
          [main : {S \in SUBSET FrameKeys : Cardinality(S) <= MaxFrameRows},
           weather : {{}, FrameKeys}, timetable : {{}, FrameKeys},
           incidents : {{}, FrameKeys}]
    /\ mf_filter \in TimeFilters
    /\ mf_brace \in BOOLEAN
    /\ mf_out = {}
    /\ mf_pc = "ready"

\* build_modelling_frame(elr_mil=<the one on disk>, time_filter=...)
BuildModellingFrame ==
    /\ mf_pc = "ready"
    /\ LET pattern == BuildGlob(mf_filter)
           incidents_exist == HasParquetFiles(pattern, mf_tables.incidents)
           m == ParquetScan(pattern, mf_tables.main, mf_brace)
           w == ParquetScan(pattern, mf_tables.weather, mf_brace)
           t == ParquetScan(pattern, mf_tables.timetable, mf_brace)
           i == ParquetScan(pattern, mf_tables.incidents, mf_brace)
       IN  IF m = {} \/ w = {} \/ t = {} \/ (incidents_exist /\ i = {})
           THEN mf_pc' = "IOException" /\ UNCHANGED mf_out
           ELSE /\ mf_out' = JoinedFrame(m, w, t, IF incidents_exist THEN i ELSE {})
                /\ mf_pc' = "returned"
    /\ UNCHANGED <<mf_tables, mf_filter, mf_brace>>

NextFrame ==
    BuildModellingFrame
        /\ UNCHANGED <<hc_vars, cif_vars, bp_vars, dl_vars, gc_vars, tb_vars, wx_vars, inc_vars, tm_vars, sv_vars, cr_vars, ls_vars, wp_vars, oz_vars, co_vars, sw_vars, tc_vars, dp_vars, tg_vars>>

StartFrame ==
    InitFrame /\ HcIdle /\ CifIdle /\ BpIdle /\ DlIdle /\ GcIdle /\ TbIdle
        /\ WxIdle /\ IncIdle /\ TmIdle /\ SvIdle /\ CrIdle /\ LsIdle /\ WpIdle /\ OzIdle /\ CoIdle /\ SwIdle /\ TcIdle /\ DpIdle /\ TgIdle

SpecFrame == StartFrame /\ [][NextFrame]_vars

\* C18: the rows of a returned frame are exactly the rows of the main
\* timebase whose year, month, day and hour are each in the set the
\* time_filter gives for that component, hour included.
C18_FilterRestrictsRows ==
    mf_pc = "returned" =>
        {r.key : r \in mf_out} =
            {k \in mf_tables.main :
                \A c \in DOMAIN mf_filter : k[c] \in mf_filter[c].vals}

(***************************************************************************)
(* Per-label models: models/modelling.py                                   *)
(***************************************************************************)
MaxLabels == 3           \* INCIDENT_ columns of the modelling frame

\* what sm.GLM(y, X_enc, family=Poisson()).fit() does for one label: it
\* returns a result, raises a ValueError (or a subclass of it), or raises an
\* exception that is not a ValueError, such as PerfectSeparationError
FitOutcomes == {"fitted", "ValueError", "PerfectSeparationError"}

\* one label: whether y.sum() == 0, and the outcome of fitting it
Labels == [zero : BOOLEAN, fit : FitOutcomes]

\* the for loop of train_model_for_elr from column i on, st = [results, pc]
RECURSIVE FitLoop(_, _, _)
FitLoop(labels, i, st) ==
    IF i > Len(labels) THEN st
    ELSE IF labels[i].zero THEN FitLoop(labels, i + 1, st)
    ELSE IF labels[i].fit = "fitted"
    THEN FitLoop(labels, i + 1, [st EXCEPT !.results = @ \cup {i}])
    ELSE IF labels[i].fit = "ValueError" THEN FitLoop(labels, i + 1, st)
    ELSE [st EXCEPT !.pc = labels[i].fit]

InitModels ==
    /\ tm_labels \in SeqsOf(Labels, 1, MaxLabels)
    /\ tm_return_xy \in BOOLEAN
    /\ tm_results = {}
    /\ tm_pc = "ready"

\* train_model_for_elr on a frame with the INCIDENT_ columns tm_labels
TrainModelForElr ==
    /\ tm_pc = "ready"
    /\ IF tm_return_xy
       THEN tm_pc' = "returned_xy" /\ UNCHANGED tm_results
       ELSE LET st == FitLoop(tm_labels, 1, [results |-> {}, pc |-> "loop"])
            IN  IF st.pc # "loop"
                THEN tm_pc' = st.pc /\ UNCHANGED tm_results
                ELSE IF st.results = {}
                THEN tm_pc' = "IndexError" /\ UNCHANGED tm_results
                ELSE tm_pc' = "returned" /\ tm_results' = st.results
    /\ UNCHANGED <<tm_labels, tm_return_xy>>

NextModels ==
    TrainModelForElr
        /\ UNCHANGED <<hc_vars, cif_vars, bp_vars, dl_vars, gc_vars, tb_vars, wx_vars, inc_vars, mf_vars, sv_vars, cr_vars, ls_vars, wp_vars, oz_vars, co_vars, sw_vars, tc_vars, dp_vars, tg_vars>>

StartModels ==
    InitModels /\ HcIdle /\ CifIdle /\ BpIdle /\ DlIdle /\ GcIdle /\ TbIdle
        /\ WxIdle /\ IncIdle /\ MfIdle /\ SvIdle /\ CrIdle /\ LsIdle /\ WpIdle /\ OzIdle /\ CoIdle /\ SwIdle /\ TcIdle /\ DpIdle /\ TgIdle

SpecModels == StartModels /\ [][NextModels]_vars

\* C19: once train_model_for_elr has run its loop over a frame in which at
\* least one label fits, the call has returned, and what it returned is the
\* models of exactly the labels that fit: a label whose fit failed, with
\* whatever exception, is left out and does not abort the call.
C19_FailedLabelOmitted ==
    LET tried == {i \in DOMAIN tm_labels : ~tm_labels[i].zero}
        failed == {i \in tried : tm_labels[i].fit # "fitted"}
    IN  (tm_pc \notin {"ready", "returned_xy"} /\ tried \ failed # {}) =>
            tm_pc = "returned" /\ tm_results = tried \ failed

(***************************************************************************)
(* Session.save: io/session.py                                             *)
(***************************************************************************)
MaxSaves == 2            \* calls of save on the same dest
MaxBodyLen == 2          \* bytes of a response body

Bodies == SeqsOf({0, 1}, 0, MaxBodyLen)

\* a path as the parts of its name; dest with and without a suffix
DestPaths == {<<"feed">>, <<"feed", ".zip">>}

SameAsDest(dest) == dest

\* tmp = dest.with_suffix(dest.suffix + ".tmp"): the name of dest with
\* ".tmp" added after it
TmpOf(dest) == Append(dest, ".tmp")

Absent == [exists |-> FALSE, bytes |-> <<>>]
FileWith(b) == [exists |-> TRUE, bytes |-> b]

\* the byte strings that begin b, b itself left out: what a file holds when
\* the write of b stopped part-way
RECURSIVE ProperPrefixes(_)
ProperPrefixes(b) ==
    IF b = <<>> THEN {}
    ELSE LET front == SubSeq(b, 1, Len(b) - 1) IN {front} \cup ProperPrefixes(front)

\* Before the first call dest is absent or holds a complete earlier
\* download; the temporary file is absent or left over from a write that
\* failed.
InitSave ==
    /\ sv_dest \in DestPaths
    /\ sv_posix \in BOOLEAN
    /\ \E d \in {Absent} \cup {FileWith(b) : b \in Bodies} :
       \E t \in {Absent} \cup {FileWith(x) : x \in UNION {ProperPrefixes(b) : b \in Bodies}} :
          /\ sv_fs = [q \in {sv_dest, TmpOf(sv_dest)} |-> IF q = sv_dest THEN d ELSE t]
          /\ sv_prev = d
    /\ sv_data = <<>>
    /\ sv_log = <<>>
    /\ sv_pc = "ready"

\* line 131, the argument: download_binary returns the whole body
DownloadBinary ==
    /\ sv_pc = "ready" /\ Len(sv_log) < MaxSaves
    /\ \E b \in Bodies : sv_data' = b
    /\ sv_prev' = sv_fs[sv_dest]
    /\ sv_pc' = "downloaded"
    /\ UNCHANGED <<sv_dest, sv_fs, sv_log, sv_posix>>

\* line 131, the argument: the request raises and nothing is written
DownloadRaises ==
    /\ sv_pc = "ready" /\ Len(sv_log) < MaxSaves
    /\ sv_prev' = sv_fs[sv_dest]
    /\ sv_log' = Append(sv_log, "ConnectionError")
    /\ UNCHANGED <<sv_dest, sv_fs, sv_data, sv_posix, sv_pc>>

\* tmp.write_bytes: open(mode="wb") creates or truncates the file
OpenTmp ==
    /\ sv_pc = "downloaded"
    /\ sv_fs' = [sv_fs EXCEPT ![TmpOf(sv_dest)] = FileWith(<<>>)]
    /\ sv_pc' = "writing"
    /\ UNCHANGED <<sv_dest, sv_data, sv_prev, sv_log, sv_posix>>

\* tmp.write_bytes: the next byte reaches the file
WriteByte ==
    /\ sv_pc = "writing"
    /\ LET tmp == TmpOf(sv_dest)
           n == Len(sv_fs[tmp].bytes)
       IN  /\ n < Len(sv_data)
           /\ sv_fs' = [sv_fs EXCEPT ![tmp].bytes = Append(@, sv_data[n + 1])]
    /\ UNCHANGED <<sv_dest, sv_data, sv_prev, sv_log, sv_posix, sv_pc>>

\* tmp.write_bytes raises part-way (disk full, interrupt): save ends there
WriteRaises ==
    /\ sv_pc = "writing"
    /\ Len(sv_fs[TmpOf(sv_dest)].bytes) < Len(sv_data)
    /\ sv_log' = Append(sv_log, "OSError")
    /\ sv_pc' = "ready"
    /\ UNCHANGED <<sv_dest, sv_fs, sv_data, sv_prev, sv_posix>>

\* tmp.write_bytes returns: every byte is written and the file closed
CloseTmp ==
    /\ sv_pc = "writing"
    /\ Len(sv_fs[TmpOf(sv_dest)].bytes) = Len(sv_data)
    /\ sv_pc' = "written"
    /\ UNCHANGED <<sv_dest, sv_fs, sv_data, sv_prev, sv_log, sv_posix>>

\* tmp.rename(dest) and return dest.  Where rename does not replace an
\* existing target it raises FileExistsError and changes nothing.
Rename ==
    /\ sv_pc = "written"
    /\ LET tmp == TmpOf(sv_dest) IN
       IF ~sv_posix /\ sv_fs[sv_dest].exists
       THEN /\ sv_log' = Append(sv_log, "FileExistsError")
            /\ UNCHANGED sv_fs
       ELSE /\ sv_fs' = [q \in DOMAIN sv_fs |->
                           IF q = tmp THEN Absent
                           ELSE IF q = sv_dest THEN sv_fs[tmp] ELSE sv_fs[q]]
            /\ sv_log' = Append(sv_log, "returned")
    /\ sv_pc' = "ready"
    /\ UNCHANGED <<sv_dest, sv_data, sv_prev, sv_posix>>

NextSave ==
    \/ DownloadBinary
        /\ UNCHANGED <<hc_vars, cif_vars, bp_vars, dl_vars, gc_vars, tb_vars, wx_vars, inc_vars, mf_vars, tm_vars, cr_vars, ls_vars, wp_vars, oz_vars, co_vars, sw_vars, tc_vars, dp_vars, tg_vars>>
    \/ DownloadRaises
        /\ UNCHANGED <<hc_vars, cif_vars, bp_vars, dl_vars, gc_vars, tb_vars, wx_vars, inc_vars, mf_vars, tm_vars, cr_vars, ls_vars, wp_vars, oz_vars, co_vars, sw_vars, tc_vars, dp_vars, tg_vars>>
    \/ OpenTmp
        /\ UNCHANGED <<hc_vars, cif_vars, bp_vars, dl_vars, gc_vars, tb_vars, wx_vars, inc_vars, mf_vars, tm_vars, cr_vars, ls_vars, wp_vars, oz_vars, co_vars, sw_vars, tc_vars, dp_vars, tg_vars>>
    \/ WriteByte
        /\ UNCHANGED <<hc_vars, cif_vars, bp_vars, dl_vars, gc_vars, tb_vars, wx_vars, inc_vars, mf_vars, tm_vars, cr_vars, ls_vars, wp_vars, oz_vars, co_vars, sw_vars, tc_vars, dp_vars, tg_vars>>
    \/ WriteRaises
        /\ UNCHANGED <<hc_vars, cif_vars, bp_vars, dl_vars, gc_vars, tb_vars, wx_vars, inc_vars, mf_vars, tm_vars, cr_vars, ls_vars, wp_vars, oz_vars, co_vars, sw_vars, tc_vars, dp_vars, tg_vars>>
    \/ CloseTmp
        /\ UNCHANGED <<hc_vars, cif_vars, bp_vars, dl_vars, gc_vars, tb_vars, wx_vars, inc_vars, mf_vars, tm_vars, cr_vars, ls_vars, wp_vars, oz_vars, co_vars, sw_vars, tc_vars, dp_vars, tg_vars>>
    \/ Rename
        /\ UNCHANGED <<hc_vars, cif_vars, bp_vars, dl_vars, gc_vars, tb_vars, wx_vars, inc_vars, mf_vars, tm_vars, cr_vars, ls_vars, wp_vars, oz_vars, co_vars, sw_vars, tc_vars, dp_vars, tg_vars>>

StartSave ==
    InitSave /\ HcIdle /\ CifIdle /\ BpIdle /\ DlIdle /\ GcIdle /\ TbIdle
        /\ WxIdle /\ IncIdle /\ MfIdle /\ TmIdle /\ CrIdle /\ LsIdle /\ WpIdle /\ OzIdle /\ CoIdle /\ SwIdle /\ TcIdle /\ DpIdle /\ TgIdle

SpecSave == StartSave /\ [][NextSave]_vars

\* C20: at every step of save, a failed download or write included, the
\* file at dest is absent, or what it was when the call began, or the whole
\* body the call downloaded; it is never a partly written file.
C20_DestNeverPartial ==
    sv_pc # "idle" =>
        \/ sv_fs[sv_dest] = Absent
        \/ sv_fs[sv_dest] = sv_prev
        \/ sv_log # <<>> /\ sv_log[Len(sv_log)] = "returned"
              /\ sv_fs[sv_dest] = FileWith(sv_data)

\* a write failed part-way in one call and another call renamed its
\* download over an existing dest
C20_Witness ==
    /\ \E i \in DOMAIN sv_log : sv_log[i] = "OSError"
    /\ sv_log[Len(sv_log)] = "returned"
    /\ sv_prev.exists
    /\ sv_fs[sv_dest] = FileWith(sv_data) /\ sv_fs[sv_dest] # sv_prev

(***************************************************************************)
(* Session construction: io/session.py, rail_io/nationalrail_client.py     *)
(***************************************************************************)
\* a credential as passed or as found in the environment: None (unset),
\* the empty string, or a non-empty string
CredValues == {"None", "", "secret"}
Credentials == [user : CredValues, password : CredValues, token : CredValues]

\* Python truth of a str | None
Truthy(v) == v \notin {"None", ""}

\* a or b
OrElse(a, b) == IF Truthy(a) THEN a ELSE b

\* the body of Session.__init__: [pc, auth]
SessionInit(user, password, token) ==
    IF ~Truthy(token) /\ (~Truthy(user) \/ ~Truthy(password))
    THEN [pc |-> "CredentialsError", auth |-> "none"]
    ELSE [pc |-> "constructed",
          auth |-> IF Truthy(token) THEN "token" ELSE "basic"]

InitCredentials ==
    /\ cr_class \in {"Session", "NationalRailSession"}
    /\ cr_args \in Credentials
    /\ cr_env \in Credentials
    /\ cr_auth = "none"
    /\ cr_pc = "ready"

\* Session(user=..., password=..., token=...)
ConstructSession ==
    /\ cr_pc = "ready" /\ cr_class = "Session"
    /\ LET r == SessionInit(cr_args.user, cr_args.password, cr_args.token)
       IN  cr_pc' = r.pc /\ cr_auth' = r.auth
    /\ UNCHANGED <<cr_class, cr_args, cr_env>>

\* NationalRailSession(user, password, token): the arguments, else the
\* environment, are handed on as super().__init__(self.user, self.password,
\* self.token).  Every parameter of Session.__init__ after self is
\* keyword-only, so the call raises before the body of Session.__init__ runs.
ConstructNationalRailSession ==
    /\ cr_pc = "ready" /\ cr_class = "NationalRailSession"
    /\ cr_pc' = "TypeError" /\ cr_auth' = "none"
    /\ UNCHANGED <<cr_class, cr_args, cr_env>>

NextCredentials ==
    \/ ConstructSession
        /\ UNCHANGED <<hc_vars, cif_vars, bp_vars, dl_vars, gc_vars, tb_vars, wx_vars, inc_vars, mf_vars, tm_vars, sv_vars, ls_vars, wp_vars, oz_vars, co_vars, sw_vars, tc_vars, dp_vars, tg_vars>>
    \/ ConstructNationalRailSession
        /\ UNCHANGED <<hc_vars, cif_vars, bp_vars, dl_vars, gc_vars, tb_vars, wx_vars, inc_vars, mf_vars, tm_vars, sv_vars, ls_vars, wp_vars, oz_vars, co_vars, sw_vars, tc_vars, dp_vars, tg_vars>>

StartCredentials ==
    InitCredentials
        /\ HcIdle /\ CifIdle /\ BpIdle /\ DlIdle /\ GcIdle /\ TbIdle /\ WxIdle
        /\ IncIdle /\ MfIdle /\ TmIdle /\ SvIdle /\ LsIdle /\ WpIdle /\ OzIdle /\ CoIdle /\ SwIdle /\ TcIdle /\ DpIdle /\ TgIdle

SpecCredentials == StartCredentials /\ [][NextCredentials]_vars

\* C21: a construction, of Session or of NationalRailSession with
\* credentials from its arguments or the environment, succeeds exactly when
\* a token or both a user and a password are supplied, and fails with
\* CredentialsError otherwise.
C21_ConstructsIffCredentials ==
    cr_pc # "ready" /\ cr_pc # "idle" =>
        LET eff(k) == IF cr_class = "Session" THEN cr_args[k]
                      ELSE OrElse(cr_args[k], cr_env[k])
            supplied == Truthy(eff("token"))
                          \/ (Truthy(eff("user")) /\ Truthy(eff("password")))
        IN  IF supplied THEN cr_pc = "constructed" /\ cr_auth # "none"
            ELSE cr_pc = "CredentialsError"

(***************************************************************************)
(* load_settings: features/config.py, models/config.py                     *)
(***************************************************************************)
\* a path as [dir, name]; the loader itself is pkg/config.py
LoaderFile == [dir |-> "pkg", name |-> "config.py"]
DocPaths == [dir : {"pkg", "tmp"}, name : {"settings.yaml", "custom.yaml"}]

\* what a path holds: no file, a document the schema accepts, or one it
\* rejects
DocStates == {"absent", "valid", "invalid"}

\* Path.with_name: the same directory, the last component replaced
WithName(p, name) == [dir |-> p.dir, name |-> name]

InitSettings ==
    /\ ls_fs \in [DocPaths -> DocStates]
    /\ ls_path \in {NoRec} \cup DocPaths
    /\ ls_read = NoRec
    /\ ls_pc = "ready"

\* load_settings(path)
LoadSettings ==
    /\ ls_pc = "ready"
    /\ LET yaml_path == WithName(IF ls_path = NoRec THEN LoaderFile ELSE ls_path,
                                 "settings.yaml")
       IN  IF ls_fs[yaml_path] = "absent"
           THEN ls_pc' = "FileNotFoundError" /\ UNCHANGED ls_read
           ELSE /\ ls_read' = yaml_path
                /\ ls_pc' = IF ls_fs[yaml_path] = "valid" THEN "returned"
                            ELSE "SystemExit"
    /\ UNCHANGED <<ls_fs, ls_path>>

NextSettings ==
    LoadSettings
        /\ UNCHANGED <<hc_vars, cif_vars, bp_vars, dl_vars, gc_vars, tb_vars, wx_vars, inc_vars, mf_vars, tm_vars, sv_vars, cr_vars, wp_vars, oz_vars, co_vars, sw_vars, tc_vars, dp_vars, tg_vars>>

StartSettings ==
    InitSettings
        /\ HcIdle /\ CifIdle /\ BpIdle /\ DlIdle /\ GcIdle /\ TbIdle /\ WxIdle
        /\ IncIdle /\ MfIdle /\ TmIdle /\ SvIdle /\ CrIdle /\ WpIdle /\ OzIdle /\ CoIdle /\ SwIdle /\ TcIdle /\ DpIdle /\ TgIdle

SpecSettings == StartSettings /\ [][NextSettings]_vars

\* C22: called with an explicit path, load_settings reads the document at
\* exactly that path, whatever its name, and raises FileNotFoundError exactly
\* when no document is there.
C22_ExplicitPathIsRead ==
    (ls_pc \notin {"idle", "ready"} /\ ls_path # NoRec) =>
        /\ ls_pc = "FileNotFoundError" <=> ls_fs[ls_path] = "absent"
        /\ ls_pc # "FileNotFoundError" => ls_read = ls_path

(***************************************************************************)
(* write_to_parquet and its partition limit: features/utils.py             *)
(***************************************************************************)
MaxParts == 5000         \* max_parts: int = 5000
CardSlack == 25          \* cardinalities tried: MaxParts - 25 .. MaxParts + 25

\* pq.write_to_dataset(..., max_partitions=limit): a frame of more
\* partitions than the limit is refused before anything is written
WriteWithLimit(keys, limit) ==
    IF keys > limit THEN [pc |-> "ArrowInvalid", written |-> 0]
    ELSE [pc |-> "returned", written |-> keys]

\* pq.write_to_dataset(table, root_path, partition_cols, compression) of a
\* library that does not know max_partitions: one directory per key
WriteNoLimit(keys) == [pc |-> "returned", written |-> keys]

InitParquet ==
    /\ wp_keys \in (MaxParts - CardSlack)..(MaxParts + CardSlack)
    /\ wp_lib \in {"dataset", "legacy"}
    /\ wp_written = 0
    /\ wp_path = "none"
    /\ wp_pc = "ready"

\* write_to_parquet(df, out_root): the first call, and after its TypeError
\* for an unknown keyword the call of the except branch
WriteDataset ==
    /\ wp_pc = "ready"
    /\ LET r == IF wp_lib = "dataset" THEN WriteWithLimit(wp_keys, MaxParts)
                ELSE WriteNoLimit(wp_keys)
       IN  /\ wp_pc' = r.pc
           /\ wp_written' = r.written
           /\ wp_path' = IF wp_lib = "dataset" THEN "first" ELSE "fallback"
    /\ UNCHANGED <<wp_keys, wp_lib>>

NextParquet ==
    WriteDataset
        /\ UNCHANGED <<hc_vars, cif_vars, bp_vars, dl_vars, gc_vars, tb_vars, wx_vars, inc_vars, mf_vars, tm_vars, sv_vars, cr_vars, ls_vars, oz_vars, co_vars, sw_vars, tc_vars, dp_vars, tg_vars>>

StartParquet ==
    InitParquet
        /\ HcIdle /\ CifIdle /\ BpIdle /\ DlIdle /\ GcIdle /\ TbIdle /\ WxIdle
        /\ IncIdle /\ MfIdle /\ TmIdle /\ SvIdle /\ CrIdle /\ LsIdle /\ OzIdle /\ CoIdle /\ SwIdle /\ TcIdle /\ DpIdle /\ TgIdle

SpecParquet == StartParquet /\ [][NextParquet]_vars

\* C23: on either write path a frame of more than 5,000 partition keys makes
\* write_to_parquet fail, and no call leaves more than 5,000 partitions
\* written.
C23_PartitionLimitEnforced ==
    /\ wp_written <= MaxParts
    /\ (wp_pc \notin {"idle", "ready"} /\ wp_keys > MaxParts) => wp_pc = "ArrowInvalid"

(***************************************************************************)
(* _open_zip: rail_io/track_client.py                                      *)
(***************************************************************************)
\* required = {ext: None for ext in (".shp", ".shx", ".dbf")}, in order
RequiredExts == <<".shp", ".shx", ".dbf">>

\* what can be wrong with a member: nothing, a path that leaves the
\* extraction directory, or data zf.extract cannot read
MemberFaults == {"none", "unsafe", "corrupt"}

\* the archives: present or not, which of the three members they hold, and
\* which single member (if any) is faulty
ZipArchives ==
    [exists : BOOLEAN, members : SUBSET {1, 2, 3},
     fault : [at : {1, 2, 3}, kind : MemberFaults]]

\* the for loop over required.values(): st = [files, pc]
RECURSIVE ExtractMembers(_, _, _)
ExtractMembers(zip, i, st) ==
    IF i > Len(RequiredExts) THEN st
    ELSE IF zip.fault.at = i /\ zip.fault.kind = "unsafe"
    THEN [st EXCEPT !.pc = "ELRClientError"]
    ELSE IF zip.fault.at = i /\ zip.fault.kind = "corrupt"
    THEN [st EXCEPT !.pc = "BadZipFile"]
    ELSE ExtractMembers(zip, i + 1, [st EXCEPT !.files = @ \cup {RequiredExts[i]}])

InitOpenZip ==
    /\ oz_zip \in ZipArchives
    /\ oz_temp = "none"
    /\ oz_files = {}
    /\ oz_pc = "ready"

\* with _open_zip(path) as shp: the generator up to its yield, for a path
\* that ends in .zip
EnterOpenZip ==
    /\ oz_pc = "ready"
    /\ IF ~oz_zip.exists
       THEN oz_pc' = "ZipFileNotFoundError" /\ UNCHANGED <<oz_temp, oz_files>>
       ELSE IF oz_zip.members # {1, 2, 3}
       THEN oz_pc' = "ELRClientError" /\ UNCHANGED <<oz_temp, oz_files>>
       ELSE LET st == ExtractMembers(oz_zip, 1, [files |-> {}, pc |-> "body"])
            IN  /\ oz_temp' = "present"
                /\ oz_files' = st.files
                /\ oz_pc' = st.pc
    /\ UNCHANGED oz_zip

\* the body of the with statement ends, normally or by raising: the finally
\* clause runs shutil.rmtree(temp_dir)
ExitOpenZip ==
    /\ oz_pc = "body"
    /\ oz_temp' = "removed" /\ oz_files' = {}
    /\ oz_pc' \in {"exited", "BodyError"}
    /\ UNCHANGED oz_zip

NextOpenZip ==
    \/ EnterOpenZip
        /\ UNCHANGED <<hc_vars, cif_vars, bp_vars, dl_vars, gc_vars, tb_vars, wx_vars, inc_vars, mf_vars, tm_vars, sv_vars, cr_vars, ls_vars, wp_vars, co_vars, sw_vars, tc_vars, dp_vars, tg_vars>>
    \/ ExitOpenZip
        /\ UNCHANGED <<hc_vars, cif_vars, bp_vars, dl_vars, gc_vars, tb_vars, wx_vars, inc_vars, mf_vars, tm_vars, sv_vars, cr_vars, ls_vars, wp_vars, co_vars, sw_vars, tc_vars, dp_vars, tg_vars>>

StartOpenZip ==
    InitOpenZip
        /\ HcIdle /\ CifIdle /\ BpIdle /\ DlIdle /\ GcIdle /\ TbIdle /\ WxIdle
        /\ IncIdle /\ MfIdle /\ TmIdle /\ SvIdle /\ CrIdle /\ LsIdle /\ WpIdle /\ CoIdle /\ SwIdle /\ TcIdle /\ DpIdle /\ TgIdle

SpecOpenZip == StartOpenZip /\ [][NextOpenZip]_vars

\* C24: once the operation is over, whether the body finished, the body
\* raised, or extraction failed after the directory was created, no
\* temporary directory is left.
C24_TempDirRemoved ==
    oz_pc \notin {"idle", "ready", "body"} => oz_temp # "present"

(***************************************************************************)
(* CORPUS cache: rail_io/corpus_client.py                                  *)
(***************************************************************************)
MaxCorpusCalls == 2      \* calls in a row against the same cache path

\* the table parsed from the source file, and one cached earlier
CorpusTables == {"corpus", "cached"}

\* extract_corpus(file_path, cache_path): [pc, out, cache, extracted].
\* The function has no return statement, and writes the cache only when the
\* cache file is there already.
ExtractCorpusResult(input, cache) ==
    IF ~input.exists
    THEN [pc |-> "FileNotFoundError", out |-> "None", cache |-> cache,
          extracted |-> FALSE]
    ELSE IF input.fmt = "nosuffix"
    THEN [pc |-> "IndexError", out |-> "None", cache |-> cache,
          extracted |-> FALSE]
    ELSE [pc |-> "returned", out |-> "None",
          cache |-> IF cache # "absent" THEN "corpus" ELSE cache,
          extracted |-> TRUE]

\* rail_io.utils.get_cache(cache_path, input_path, extract_corpus)
GetCorpusResult(dir, input, cache) ==
    IF ~dir
    THEN [pc |-> "ValueError", out |-> "None", cache |-> cache, extracted |-> FALSE]
    ELSE IF cache # "absent"
    THEN [pc |-> "returned", out |-> cache, cache |-> cache, extracted |-> FALSE]
    ELSE IF input.exists
    THEN ExtractCorpusResult(input, cache)
    ELSE [pc |-> "FileNotFoundError", out |-> "None", cache |-> cache,
          extracted |-> FALSE]

InitCorpus ==
    /\ co_dir \in BOOLEAN
    /\ co_cache \in IF co_dir THEN {"absent", "cached"} ELSE {"absent"}
    /\ co_input \in [exists : BOOLEAN, fmt : {"json", "csv", "nosuffix"}]
    /\ co_log = <<>>
    /\ co_pc = "ready"

\* get_corpus(cache_path, input_path)
GetCorpus ==
    /\ co_pc = "ready" /\ Len(co_log) < MaxCorpusCalls
    /\ LET r == GetCorpusResult(co_dir, co_input, co_cache)
       IN  /\ co_cache' = r.cache
           /\ co_log' = Append(co_log, [call |-> "get", before |-> co_cache,
                                        out |-> r.out, pc |-> r.pc,
                                        extracted |-> r.extracted])
    /\ UNCHANGED <<co_dir, co_input, co_pc>>

\* extract_corpus(input_path, cache_path), as extract_datasets calls it
ExtractCorpus ==
    /\ co_pc = "ready" /\ Len(co_log) < MaxCorpusCalls
    /\ LET r == ExtractCorpusResult(co_input, co_cache)
       IN  /\ co_cache' = r.cache
           /\ co_log' = Append(co_log, [call |-> "extract", before |-> co_cache,
                                        out |-> r.out, pc |-> r.pc,
                                        extracted |-> r.extracted])
    /\ UNCHANGED <<co_dir, co_input, co_pc>>

NextCorpus ==
    \/ GetCorpus
        /\ UNCHANGED <<hc_vars, cif_vars, bp_vars, dl_vars, gc_vars, tb_vars, wx_vars, inc_vars, mf_vars, tm_vars, sv_vars, cr_vars, ls_vars, wp_vars, oz_vars, sw_vars, tc_vars, dp_vars, tg_vars>>
    \/ ExtractCorpus
        /\ UNCHANGED <<hc_vars, cif_vars, bp_vars, dl_vars, gc_vars, tb_vars, wx_vars, inc_vars, mf_vars, tm_vars, sv_vars, cr_vars, ls_vars, wp_vars, oz_vars, sw_vars, tc_vars, dp_vars, tg_vars>>

StartCorpus ==
    InitCorpus
        /\ HcIdle /\ CifIdle /\ BpIdle /\ DlIdle /\ GcIdle /\ TbIdle /\ WxIdle
        /\ IncIdle /\ MfIdle /\ TmIdle /\ SvIdle /\ CrIdle /\ LsIdle /\ WpIdle
        /\ OzIdle /\ SwIdle /\ TcIdle /\ DpIdle /\ TgIdle

SpecCorpus == StartCorpus /\ [][NextCorpus]_vars

\* C25: a get_corpus call that finds the cache returns the cached table and
\* extracts nothing; one that finds no cache but a readable source extracts,
\* returns the extracted table, and leaves the cache file behind, so that
\* the get_corpus call after it extracts nothing.
C25_GetCorpusCaches ==
    \A i \in DOMAIN co_log :
        (co_log[i].call = "get" /\ co_dir) =>
            /\ co_log[i].before # "absent" =>
                  co_log[i].out = co_log[i].before /\ ~co_log[i].extracted
            /\ (co_log[i].before = "absent" /\ co_input.exists
                    /\ co_input.fmt # "nosuffix") =>
                  /\ co_log[i].extracted /\ co_log[i].out \in CorpusTables
                  /\ (i < Len(co_log) /\ co_log[i + 1].call = "get") =>
                        ~co_log[i + 1].extracted

(***************************************************************************)
(* The streaming window loops: features/generate_database.py,              *)
(* features/sql_weather.py, features/streaming_train_counts.py             *)
(***************************************************************************)
MaxStreamHour == 50      \* start_date and end_date are whole hours 0..MaxStreamHour
MaxRuleDays == 2         \* window_rule is "W" or timedelta(days = 0..MaxRuleDays)
MaxStreamWindows == 4    \* iterations of one loop that are followed

StreamHours == 0..MaxStreamHour
StreamFns == {"stream_main_database", "build_weather_features", "extract_train_counts"}
WindowRules ==
    {[kind |-> "W", n |-> 1]} \cup {[kind |-> "timedelta", n |-> d] : d \in 0..MaxRuleDays}

\* the midnights in range, and timetables of one or two rows valid from one
\* midnight to another
Midnights == {h \in StreamHours : (h + EpochHourOfDay) % HoursPerDay = 0}
Validities == {r \in Midnights \X Midnights : r[1] <= r[2]}
Timetables == {tt \in SUBSET Validities : Cardinality(tt) \in 1..2}

\* pd.Timestamp.normalize(): midnight of the same day
Normalize(t) == t - ((t + EpochHourOfDay) % HoursPerDay)

\* win_start + to_offset(window_rule)
AddOffset(t, rule) ==
    IF rule.kind = "W" THEN PlusOffset(t) ELSE t + rule.n * HoursPerDay

\* win_end: one second short of the next window, clipped to the bound
WinEnd(win_start, rule, hi) ==
    IF AddOffset(win_start, rule) - 1 > hi THEN hi ELSE AddOffset(win_start, rule) - 1

\* mask.any() of extract_train_counts
MaskAny(tt, win_start, win_end) ==
    \E r \in tt : r[1] <= win_end /\ r[2] >= win_start

InitStreaming ==
    /\ sw_fn \in StreamFns
    /\ sw_rule \in WindowRules
    /\ sw_range \in {r \in StreamHours \X StreamHours : r[1] <= r[2]}
    /\ sw_tt \in IF sw_fn = "extract_train_counts" THEN Timetables ELSE {{}}
    /\ sw_lo = 0 /\ sw_hi = 0 /\ sw_win_start = 0 /\ sw_log = <<>>
    /\ sw_pc = "ready"

\* up to the while loop: the bounds the loop runs between
EnterLoop ==
    /\ sw_pc = "ready"
    /\ LET horizon_start == SetMax({SetMin({r[1] : r \in sw_tt}), Normalize(sw_range[1])})
           horizon_end == SetMin({SetMax({r[2] : r \in sw_tt}), Normalize(sw_range[2])})
           lo == IF sw_fn = "extract_train_counts" THEN horizon_start ELSE sw_range[1]
           hi == IF sw_fn = "extract_train_counts" THEN horizon_end ELSE sw_range[2]
       IN  sw_lo' = lo /\ sw_hi' = hi /\ sw_win_start' = lo
    /\ sw_pc' = "loop"
    /\ UNCHANGED <<sw_fn, sw_rule, sw_range, sw_tt, sw_log>>

\* one pass of the while loop: the window is processed and written, then
\* win_start += offset
WindowPass ==
    /\ sw_pc = "loop" /\ sw_win_start <= sw_hi
    /\ Len(sw_log) < MaxStreamWindows
    /\ LET win_end == WinEnd(sw_win_start, sw_rule, sw_hi)
           written == sw_fn = "extract_train_counts" => MaskAny(sw_tt, sw_win_start, win_end)
       IN  sw_log' = Append(sw_log, [start |-> sw_win_start, end |-> win_end,
                                     written |-> written])
    /\ sw_win_start' = AddOffset(sw_win_start, sw_rule)
    /\ UNCHANGED <<sw_fn, sw_rule, sw_range, sw_tt, sw_lo, sw_hi, sw_pc>>

\* the loop condition fails: the function returns
LeaveLoop ==
    /\ sw_pc = "loop" /\ sw_win_start > sw_hi
    /\ sw_pc' = "done"
    /\ UNCHANGED <<sw_fn, sw_rule, sw_range, sw_tt, sw_lo, sw_hi, sw_win_start, sw_log>>

NextStreaming ==
    \/ EnterLoop
        /\ UNCHANGED <<hc_vars, cif_vars, bp_vars, dl_vars, gc_vars, tb_vars, wx_vars, inc_vars, mf_vars, tm_vars, sv_vars, cr_vars, ls_vars, wp_vars, oz_vars, co_vars, tc_vars, dp_vars, tg_vars>>
    \/ WindowPass
        /\ UNCHANGED <<hc_vars, cif_vars, bp_vars, dl_vars, gc_vars, tb_vars, wx_vars, inc_vars, mf_vars, tm_vars, sv_vars, cr_vars, ls_vars, wp_vars, oz_vars, co_vars, tc_vars, dp_vars, tg_vars>>
    \/ LeaveLoop
        /\ UNCHANGED <<hc_vars, cif_vars, bp_vars, dl_vars, gc_vars, tb_vars, wx_vars, inc_vars, mf_vars, tm_vars, sv_vars, cr_vars, ls_vars, wp_vars, oz_vars, co_vars, tc_vars, dp_vars, tg_vars>>

StartStreaming ==
    InitStreaming
        /\ HcIdle /\ CifIdle /\ BpIdle /\ DlIdle /\ GcIdle /\ TbIdle /\ WxIdle
        /\ IncIdle /\ MfIdle /\ TmIdle /\ SvIdle /\ CrIdle /\ LsIdle /\ WpIdle
        /\ OzIdle /\ CoIdle /\ TcIdle /\ DpIdle /\ TgIdle

SpecStreaming == StartStreaming /\ [][NextStreaming]_vars

\* C26: in each streaming function, for any start <= end and any window
\* rule, the windows are processed in strictly ascending order, are pairwise
\* disjoint, none reaches beyond the end, and once the loop has ended they
\* cover every hour between the loop's bounds.
C26_WindowsAscendingDisjointCover ==
    /\ \A i \in DOMAIN sw_log :
          /\ sw_log[i].start <= sw_log[i].end /\ sw_log[i].end <= sw_hi
          /\ i < Len(sw_log) =>
                /\ sw_log[i].start < sw_log[i + 1].start
                /\ sw_log[i].end < sw_log[i + 1].start
    /\ sw_pc = "done" =>
          \A h \in sw_lo..sw_hi :
              \E i \in DOMAIN sw_log : sw_log[i].start <= h /\ h <= sw_log[i].end

(***************************************************************************)
(* Streamed train counts: extract_train_counts                             *)
(* (features/streaming_train_counts.py)                                    *)
(***************************************************************************)
MaxStreamDate == 2       \* calendar dates 0..MaxStreamDate; date 0 is a Monday
MaxStreamRows == 2       \* rows of the timetable frame

StreamDates == 0..MaxStreamDate
StreamRules ==
    {[kind |-> "W", n |-> 1]} \cup {[kind |-> "timedelta", n |-> d] : d \in 1..MaxRuleDays}

\* hops valid from the Monday to the Tuesday or to the last date; cif_arr
\* is the arrival time iter_hops read
StreamRows ==
    [train_id : 1..MaxStreamRows, ELR_MIL : {1}, start_date : {0},
     end_date : {1, MaxStreamDate}, daysofweek : {MonOnly, TueOnly, EveryDay},
     dep_time : DepTimes, cif_arr : ArrTimes]
StreamTimetables ==
    {tt \in SeqsOf(StreamRows, 1, MaxStreamRows) :
        \A i \in DOMAIN tt : tt[i].train_id = i}

\* win_start + to_offset(window_rule), in days
AddOffsetDays(d, rule) ==
    IF rule.kind = "W"
    THEN (IF Weekday(d) = WeekAnchor THEN d + DaysPerWeek
          ELSE d + ((WeekAnchor - Weekday(d)) % DaysPerWeek))
    ELSE d + rule.n

\* the day of win_end, one second short of the next window
WinEndDay(win_start, rule, hi) ==
    IF AddOffsetDays(win_start, rule) - 1 > hi THEN hi
    ELSE AddOffsetDays(win_start, rule) - 1

\* slice_df: the rows whose validity meets the window, clipped to it
ClipRow(r, win_start, win_end) ==
    [r EXCEPT !.start_date = IF @ < win_start THEN win_start ELSE @,
              !.end_date = IF @ > win_end THEN win_end ELSE @]

RECURSIVE SliceFrom(_, _, _, _)
SliceFrom(tt, i, win_start, win_end) ==
    IF i > Len(tt) THEN <<>>
    ELSE (IF tt[i].start_date <= win_end /\ tt[i].end_date >= win_start
          THEN <<ClipRow(tt[i], win_start, win_end)>> ELSE <<>>)
         \o SliceFrom(tt, i + 1, win_start, win_end)

\* _build_hourly_counts(slice_df)
WindowCounts(slice) ==
    HourlyCounts(CalOf(Collapse(slice), ExplodeDays(Collapse(slice))))

InitTrainCounts ==
    /\ tc_tt \in StreamTimetables
    /\ tc_rule \in StreamRules
    /\ tc_range \in {<<0, 1>>, <<0, MaxStreamDate>>, <<1, MaxStreamDate>>}
    /\ tc_lo = 0 /\ tc_hi = 0 /\ tc_win_start = 0 /\ tc_files = <<>>
    /\ tc_pc = "ready"

\* lines 155-181: the horizon of the timetable, clamped to the arguments
BeginTrainCounts ==
    /\ tc_pc = "ready"
    /\ tc_lo' = SetMax({SetMin({tc_tt[i].start_date : i \in DOMAIN tc_tt}), tc_range[1]})
    /\ tc_hi' = SetMin({SetMax({tc_tt[i].end_date : i \in DOMAIN tc_tt}), tc_range[2]})
    /\ tc_win_start' = tc_lo'
    /\ tc_pc' = "loop"
    /\ UNCHANGED <<tc_tt, tc_rule, tc_range, tc_files>>

\* one pass of the while loop: slice, count, write_to_parquet, advance.
\* write_to_dataset names its files by a fresh guid, so the files of
\* earlier windows stay.
CountWindow ==
    /\ tc_pc = "loop" /\ tc_win_start <= tc_hi
    /\ LET win_end == WinEndDay(tc_win_start, tc_rule, tc_hi)
           slice == SliceFrom(tc_tt, 1, tc_win_start, win_end)
       IN  IF slice = <<>>
           THEN /\ tc_win_start' = AddOffsetDays(tc_win_start, tc_rule)
                /\ UNCHANGED <<tc_files, tc_pc>>
           ELSE IF BuildRaises(slice)
           THEN /\ tc_pc' = "ValueError"
                /\ UNCHANGED <<tc_files, tc_win_start>>
           ELSE /\ tc_files' = Append(tc_files, [start |-> tc_win_start, end |-> win_end,
                                                 counts |-> WindowCounts(slice)])
                /\ tc_win_start' = AddOffsetDays(tc_win_start, tc_rule)
                /\ UNCHANGED tc_pc
    /\ UNCHANGED <<tc_tt, tc_rule, tc_range, tc_lo, tc_hi>>

EndTrainCounts ==
    /\ tc_pc = "loop" /\ tc_win_start > tc_hi
    /\ tc_pc' = "done"
    /\ UNCHANGED <<tc_tt, tc_rule, tc_range, tc_lo, tc_hi, tc_win_start, tc_files>>

NextTrainCounts ==
    \/ BeginTrainCounts
        /\ UNCHANGED <<hc_vars, cif_vars, bp_vars, dl_vars, gc_vars, tb_vars, wx_vars, inc_vars, mf_vars, tm_vars, sv_vars, cr_vars, ls_vars, wp_vars, oz_vars, co_vars, sw_vars, dp_vars, tg_vars>>
    \/ CountWindow
        /\ UNCHANGED <<hc_vars, cif_vars, bp_vars, dl_vars, gc_vars, tb_vars, wx_vars, inc_vars, mf_vars, tm_vars, sv_vars, cr_vars, ls_vars, wp_vars, oz_vars, co_vars, sw_vars, dp_vars, tg_vars>>
    \/ EndTrainCounts
        /\ UNCHANGED <<hc_vars, cif_vars, bp_vars, dl_vars, gc_vars, tb_vars, wx_vars, inc_vars, mf_vars, tm_vars, sv_vars, cr_vars, ls_vars, wp_vars, oz_vars, co_vars, sw_vars, dp_vars, tg_vars>>

StartTrainCounts ==
    InitTrainCounts
        /\ HcIdle /\ CifIdle /\ BpIdle /\ DlIdle /\ GcIdle /\ TbIdle /\ WxIdle
        /\ IncIdle /\ MfIdle /\ TmIdle /\ SvIdle /\ CrIdle /\ LsIdle /\ WpIdle
        /\ OzIdle /\ CoIdle /\ SwIdle /\ DpIdle /\ TgIdle

SpecTrainCounts == StartTrainCounts /\ [][NextTrainCounts]_vars

\* the train counts stored for (l, h), summed over the files of the dataset
RECURSIVE StoredCount(_, _, _)
StoredCount(files, l, h) ==
    IF files = <<>> THEN 0
    ELSE (IF <<l, h>> \in DOMAIN Head(files).counts THEN Head(files).counts[<<l, h>>] ELSE 0)
         + StoredCount(Tail(files), l, h)

\* the runs of the timetable inside the horizon whose [departure, arrival]
\* range touches hour h at l; the arrival is the next calling point's
TrueArrDt(r, d) ==
    IF HhmmToMinutes(r.cif_arr) < HhmmToMinutes(r.dep_time)
    THEN (d + 1) * HoursPerDay * MinutesPerHour + HhmmToMinutes(r.cif_arr)
    ELSE d * HoursPerDay * MinutesPerHour + HhmmToMinutes(r.cif_arr)

RunsTouching(tt, lo, hi, l, h) ==
    {<<i, d>> \in (DOMAIN tt) \X StreamDates :
        /\ tt[i].ELR_MIL = l
        /\ tt[i].start_date <= d /\ d <= tt[i].end_date /\ lo <= d /\ d <= hi
        /\ tt[i].daysofweek[Weekday(d) + 1] = 1
        /\ DepDt(tt[i], d) \div MinutesPerHour <= h
        /\ h <= TrueArrDt(tt[i], d) \div MinutesPerHour}

\* C27: once extract_train_counts has streamed the horizon, for every
\* (ELR_MIL, hour) the stored train counts sum to the number of runs whose
\* [departure, arrival] range touches the hour, wherever the window
\* boundaries fall, a run that arrives after midnight in the next window
\* included.
C27_CountsIndependentOfWindows ==
    tc_pc = "done" =>
        \A l \in Locs, h \in 0..((MaxStreamDate + 2) * HoursPerDay) :
            StoredCount(tc_files, l, h)
                = Cardinality(RunsTouching(tc_tt, tc_lo, tc_hi, l, h))

(***************************************************************************)
(* Where delay files are cached and where they are looked for:             *)
(* rail_io/delay_processor.py, features/extract_incidents.py               *)
(***************************************************************************)
MaxSeasonDigits == 6     \* digits of the season part of a file name
MaxPeriodNumber == 99    \* two digits follow the P of a period

CacheFormats == {"parquet", "csv"}

\* a file below the cache directory: the directories down to it, and its
\* name as base[_season_Pnn].ext (season and period 0 when the name has
\* no such part)
CachePath(dirs, base, season, period, ext) ==
    [dirs |-> dirs, base |-> base, season |-> season, period |-> period, ext |-> ext]

\* dest = output_root / season_key / period / f"{name}.{fmt}"
ExtractedPath(p, fmt) == CachePath(<<p[1], p[2]>>, "delay", 0, 0, fmt)

\* a file named delay_<season>_P<nn>.<ext> in the directory itself
FlatPath(p, ext) == CachePath(<<>>, "delay", p[1], p[2], ext)

\* pattern.match(f.name) for ^delay_\d{6}_[A-Z0-9]{3}\.<fmt>$
PatternMatches(f, fmt) ==
    /\ f.base = "delay"
    /\ f.season >= 10 ^ (MaxSeasonDigits - 1) /\ f.season < 10 ^ MaxSeasonDigits
    /\ f.period \in 1..MaxPeriodNumber
    /\ f.ext = fmt

\* _delay_files(directory, fmt, start_date, end_date): iterdir lists the
\* entries of the directory itself, and a subdirectory is not a file
DelayFilesFound(tree, fmt, window) ==
    {f \in tree :
        /\ f.dirs = <<>>
        /\ PatternMatches(f, fmt)
        /\ window # NoRec =>
              <<f.season, f.period>> \in (CHOOSE wp \in WindowPeriods : wp[1] = window)[2]}

InitDelayPaths ==
    /\ dp_fmt \in CacheFormats
    /\ dp_tree \in SUBSET {FlatPath(p, ext) : p \in IncFileNames, ext \in CacheFormats}
    /\ dp_window \in {NoRec} \cup {w \in IncWindows : w.start <= w.end}
    /\ dp_cached = {} /\ dp_found = {} /\ dp_pc = "ready"

\* _extract_first_csv(zip_path, season_dir, fmt, period) for an archive
\* that holds a CSV
ExtractFirstCsv ==
    /\ dp_pc = "ready"
    /\ \E p \in IncFileNames \ dp_cached :
          /\ dp_tree' = dp_tree \cup {ExtractedPath(p, dp_fmt)}
          /\ dp_cached' = dp_cached \cup {p}
    /\ UNCHANGED <<dp_fmt, dp_window, dp_found, dp_pc>>

\* extract_incident_dataset: files = _delay_files(directory, fmt, ...)
FindDelayFiles ==
    /\ dp_pc = "ready"
    /\ dp_found' = DelayFilesFound(dp_tree, dp_fmt, dp_window)
    /\ dp_pc' = "scanned"
    /\ UNCHANGED <<dp_tree, dp_fmt, dp_window, dp_cached>>

NextDelayPaths ==
    \/ ExtractFirstCsv
        /\ UNCHANGED <<hc_vars, cif_vars, bp_vars, dl_vars, gc_vars, tb_vars, wx_vars, inc_vars, mf_vars, tm_vars, sv_vars, cr_vars, ls_vars, wp_vars, oz_vars, co_vars, sw_vars, tc_vars, tg_vars>>
    \/ FindDelayFiles
        /\ UNCHANGED <<hc_vars, cif_vars, bp_vars, dl_vars, gc_vars, tb_vars, wx_vars, inc_vars, mf_vars, tm_vars, sv_vars, cr_vars, ls_vars, wp_vars, oz_vars, co_vars, sw_vars, tc_vars, tg_vars>>

StartDelayPaths ==
    InitDelayPaths
        /\ HcIdle /\ CifIdle /\ BpIdle /\ DlIdle /\ GcIdle /\ TbIdle /\ WxIdle
        /\ IncIdle /\ MfIdle /\ TmIdle /\ SvIdle /\ CrIdle /\ LsIdle /\ WpIdle
        /\ OzIdle /\ CoIdle /\ SwIdle /\ TcIdle /\ TgIdle

SpecDelayPaths == StartDelayPaths /\ [][NextDelayPaths]_vars

\* C28: every delay file the delay processor cached for a period that meets
\* the requested window (any period when no window is given) is among the
\* files extract_incident_dataset finds.
C28_CachedFilesAreFound ==
    dp_pc = "scanned" =>
        \A p \in dp_cached :
            (dp_window = NoRec
                \/ p \in (CHOOSE wp \in WindowPeriods : wp[1] = dp_window)[2]) =>
                ExtractedPath(p, dp_fmt) \in dp_found

(***************************************************************************)
(* The timetable and its cache: rail_io/timetable_extractor.py             *)
(***************************************************************************)
MaxMonth == 11           \* windows run over the months 0..MaxMonth; 0 is a January
MaxTimetableCalls == 2   \* get_timetable calls against the same cache path
MonthsPerYear == 12
MayMonth == 5
DecMonth == 12

TtMonths == 0..MaxMonth
TtYear(t) == t \div MonthsPerYear         \* years counted from the first one
TtMonth(t) == (t % MonthsPerYear) + 1

\* month number of the first day of month m of year y
MonthIndex(y, m) == y * MonthsPerYear + (m - 1)

\* _get_timetable_periods(start, end): the codes of the periods kept
TimetablePeriods(start, end) ==
    LET first_by == IF TtMonth(start) >= MayMonth THEN TtYear(start) ELSE TtYear(start) - 1
        last_by == IF TtMonth(end) >= MayMonth THEN TtYear(end) ELSE TtYear(end) - 1
        periods ==
            UNION {{[by |-> by, half |-> "MAY", p_start |-> MonthIndex(by, MayMonth),
                     p_end |-> MonthIndex(by, DecMonth - 1)],
                    [by |-> by, half |-> "DEC", p_start |-> MonthIndex(by, DecMonth),
                     p_end |-> MonthIndex(by + 1, MayMonth - 1)]} :
                   by \in first_by..last_by}
    IN  {[by |-> p.by, half |-> p.half] :
            p \in {q \in periods : ~(q.p_end < start \/ q.p_start > end)}}

\* every period code that has a month in 0..MaxMonth
PeriodCodes == TimetablePeriods(0, MaxMonth)

\* extract_timetable(start_time, end_time, input_path, cache_path):
\* [pc, out, cache]
ExtractTimetable(input, cache, start, end) ==
    IF input = {}
    THEN [pc |-> "FileNotFoundError", out |-> NoRec, cache |-> cache]
    ELSE LET zip_files == input \cap TimetablePeriods(start, end)
         IN  IF zip_files = {}
             THEN [pc |-> "FileNotFoundError", out |-> NoRec, cache |-> cache]
             ELSE [pc |-> "returned", out |-> [periods |-> zip_files],
                   cache |-> [periods |-> zip_files]]

InitTimetable ==
    /\ tg_input \in SUBSET PeriodCodes
    /\ tg_cache = NoRec /\ tg_log = <<>> /\ tg_pc = "ready"

\* get_timetable(cache_path, input_path, start_time, end_time)
GetTimetable ==
    /\ tg_pc = "ready" /\ Len(tg_log) < MaxTimetableCalls
    /\ \E start \in TtMonths, end \in TtMonths :
          /\ start <= end
          /\ LET r == IF tg_cache # NoRec
                      THEN [pc |-> "returned", out |-> tg_cache, cache |-> tg_cache]
                      ELSE ExtractTimetable(tg_input, tg_cache, start, end)
             IN  /\ tg_cache' = r.cache
                 /\ tg_log' = Append(tg_log, [start |-> start, end |-> end,
                                              pc |-> r.pc, out |-> r.out])
    /\ UNCHANGED <<tg_input, tg_pc>>

NextTimetable ==
    GetTimetable
        /\ UNCHANGED <<hc_vars, cif_vars, bp_vars, dl_vars, gc_vars, tb_vars, wx_vars, inc_vars, mf_vars, tm_vars, sv_vars, cr_vars, ls_vars, wp_vars, oz_vars, co_vars, sw_vars, tc_vars, dp_vars>>

StartTimetable ==
    InitTimetable
        /\ HcIdle /\ CifIdle /\ BpIdle /\ DlIdle /\ GcIdle /\ TbIdle /\ WxIdle
        /\ IncIdle /\ MfIdle /\ TmIdle /\ SvIdle /\ CrIdle /\ LsIdle /\ WpIdle
        /\ OzIdle /\ CoIdle /\ SwIdle /\ TcIdle /\ DpIdle

SpecTimetable == StartTimetable /\ [][NextTimetable]_vars

\* the periods that have a month inside [start, end]: May..November of a
\* year, and December..April of the next
PeriodMonths(p) ==
    IF p.half = "MAY"
    THEN MonthIndex(p.by, MayMonth)..MonthIndex(p.by, DecMonth - 1)
    ELSE MonthIndex(p.by, DecMonth)..MonthIndex(p.by + 1, MayMonth - 1)

Intersecting(start, end) ==
    {p \in PeriodCodes : \E m \in start..end : m \in PeriodMonths(p)}

\* C29: whatever get_timetable calls came before on the same cache path,
\* the table returned for [s, e] holds the hops of every timetable period
\* that meets [s, e] and has an archive: a cache written for another window
\* is not returned for a window it does not cover.
C29_TableCoversWindow ==
    \A i \in DOMAIN tg_log :
        tg_log[i].pc = "returned" =>
            (Intersecting(tg_log[i].start, tg_log[i].end) \cap tg_input)
                \subseteq tg_log[i].out.periods

(***************************************************************************)
(* Raw weather built on demand                                             *)
(***************************************************************************)
\* positions in the trace of the builder calls whose range holds hour h,
\* and of the aggregation of the window that holds h
BuildsOf(h) == {k \in DOMAIN wx_trace : wx_trace[k].ev = "build" /\ h \in wx_trace[k].hours}
AggregationsOf(h) ==
    {k \in DOMAIN wx_trace : wx_trace[k].ev = "aggregate" /\ h \in wx_trace[k].hours}

\* C30: after a run of build_weather_features that built raw data on demand,
\* every hour of the requested range that the raw area did not hold is in
\* the range of exactly one raw-builder call, made before the window of the
\* hour is aggregated: no hour at a window boundary is skipped or built
\* twice.
C30_EachMissingHourBuiltOnce ==
    wx_pc = "returned" =>
        \A h \in wx_range[1]..wx_range[2] :
            h \notin wx_trace[1].hours =>
                /\ Cardinality(BuildsOf(h)) = 1
                /\ \A b \in BuildsOf(h), a \in AggregationsOf(h) : b < a
====
